---------------------------- MODULE Spec2Model ----------------------------
(***************************************************************************)
(* Model of the client-side authentication session manager of the Swiss    *)
(* Bank web site: SwissBank-Website/src/services/authService.ts            *)
(* (SimpleStorageManager, RetryManager, BackendAlignedAuthService).        *)
(*                                                                         *)
(* Scheduling: one JavaScript event loop.  An action is one run-to-        *)
(* completion piece of code: a public call up to its first network         *)
(* request, the handling of one reply up to the next suspension (a         *)
(* backoff wait or the settling of the returned promise), the end of a     *)
(* backoff wait up to the next request.                                    *)
(***************************************************************************)
EXTENDS Integers, Sequences, FiniteSets, Bags, TLC

VARIABLES
  alive,       \* a BackendAlignedAuthService instance exists (page loaded)
  sessionId,   \* this.sessionId : an id or Null
  store,       \* the localStorage entry eva_auth_session_id : an item or NoItem
  now,         \* Date.now(), in ms since the model's epoch
  initialized, \* this.initialized
  sessionCheckInterval, \* this.sessionCheckInterval is set (the 60 s timer is armed)
  listening,   \* the visibilitychange/online/offline listeners are installed
  tasks,       \* bag of the asynchronous operations in flight
  last,        \* what the last step did: operation, input, reply, settled result, events
  chat,        \* the chat component's mirror of the session: authStep, sessionId, isAuthenticated
  mounted,        \* a component that uses useOTPStatus is mounted
  hookSessionId,  \* the sessionId argument of useOTPStatus at the last render
  otpStatus,      \* the otpStatus state: a status or NoStatus
  isLoading,      \* the isLoading state
  hookError,      \* the error state is set
  intervalRef,    \* intervalRef.current: the id of a timer, or 0 for null
  timers,         \* the setInterval timers of the hook that are armed
  sinceLastFetch, \* Date.now() - lastFetchRef.current, up to MIN_FETCH_GAP
  fetches,        \* bag of the otp-status requests in flight
  called,         \* the last call of a helper: the function, its arguments and what it gave
  written,        \* what the last set that reached localStorage wrote, and when
  server,         \* the server's counters and state for the session in use
  statusHeld,     \* the counters of the last answer the client received
  events,         \* this.events of the emitter: per event, its listeners in order
  registered,     \* the registrations in force, in the order the on calls made them
  delivered       \* the emit calls of the last step: the listeners each called

managerVars == <<alive, sessionId, store, now, initialized,
                 sessionCheckInterval, listening, tasks, last>>

hookVars == <<mounted, hookSessionId, otpStatus, isLoading, hookError,
              intervalRef, timers, sinceLastFetch, fetches>>

helperVars == <<called, written>>

serverVars == <<server, statusHeld>>

emitterVars == <<events, registered, delivered>>

vars == <<managerVars, chat, hookVars, helperVars, serverVars, emitterVars>>

---------------------------------------------------------------------------
(* Values *)

Null == "null"
Absent == "absent"

\* session ids the server hands out
Ids == {"A", "B"}

\* an optional boolean field of a JSON object: {} (absent), {TRUE} or {FALSE}
Truthy(f) == TRUE \in f

\* ERROR_CODES that occur in the model
TECHNICAL_ERROR_CODES ==
  {"SERVICE_ERROR", "DATABASE_ERROR", "NETWORK_ERROR", "TIMEOUT_ERROR",
   "SEND_FAILED", "RESEND_FAILED"}

DEFAULT_MAX_RETRIES == 3
DEFAULT_BASE_DELAY == 1000
SESSION_TTL == 86400000

\* bounds of the model
MaxTasks == 2
MaxTicks == 2
MaxRetriesTried == 3

\* the clock advances in steps of the session TTL
TickMs == SESSION_TTL

RECURSIVE Pow2(_)
Pow2(n) == IF n = 0 THEN 1 ELSE 2 * Pow2(n - 1)

---------------------------------------------------------------------------
(* Strings are sequences of one-character strings. *)

Digits == {"0", "1", "2", "3", "4", "5", "6", "7", "8", "9"}
Letters ==
  {"a", "b", "c", "d", "e", "f", "g", "h", "i", "j", "k", "l", "m",
   "n", "o", "p", "q", "r", "s", "t", "u", "v", "w", "x", "y", "z",
   "A", "B", "C", "D", "E", "F", "G", "H", "I", "J", "K", "L", "M",
   "N", "O", "P", "Q", "R", "S", "T", "U", "V", "W", "X", "Y", "Z"}
WhiteSpace == {" ", "\t", "\n"}

\* String.prototype.trim
RECURSIVE TrimStart(_)
TrimStart(s) ==
  IF s # <<>> /\ Head(s) \in WhiteSpace THEN TrimStart(Tail(s)) ELSE s

RECURSIVE TrimEnd(_)
TrimEnd(s) ==
  IF s # <<>> /\ s[Len(s)] \in WhiteSpace
    THEN TrimEnd(SubSeq(s, 1, Len(s) - 1))
    ELSE s

Trim(s) == TrimEnd(TrimStart(s))

AllIn(s, chars) == \A i \in 1..Len(s) : s[i] \in chars

\* a validateOTPFormat that tests the code as typed, untrimmed
validateOTPFormat_Untrimmed(otp) ==
  /\ Len(otp) = 6
  /\ AllIn(otp, Digits)

\* !!(otp && /^\d{6}$/.test(otp.trim()))
validateOTPFormat(otp) ==
  /\ otp # <<>>
  /\ Len(Trim(otp)) = 6
  /\ AllIn(Trim(otp), Digits)

\* /^[a-zA-Z0-9._%+-]+@[a-zA-Z0-9.-]+\.[a-zA-Z]{2,}$/.test(email) && email.length <= 254
EmailLocalChars == Letters \cup Digits \cup {".", "_", "%", "+", "-"}
EmailDomainChars == Letters \cup Digits \cup {".", "-"}
MaxEmailLength == 254

EmailPatternTest(s) ==
  \E at \in 2..Len(s) : \E dot \in (at + 2)..(Len(s) - 2) :
    /\ s[at] = "@"
    /\ s[dot] = "."
    /\ AllIn(SubSeq(s, 1, at - 1), EmailLocalChars)
    /\ AllIn(SubSeq(s, at + 1, dot - 1), EmailDomainChars)
    /\ AllIn(SubSeq(s, dot + 1, Len(s)), Letters)

validateEmailFormat(email) ==
  /\ email # <<>>
  /\ EmailPatternTest(email)
  /\ Len(email) <= MaxEmailLength

\* phone.replace(/\D/g, '') has 10 to 15 characters
MinPhoneDigits == 10
MaxPhoneDigits == 15

CleanPhone(phone) == SelectSeq(phone, LAMBDA c : c \in Digits)

validatePhoneFormat(phone) ==
  /\ phone # <<>>
  /\ Len(CleanPhone(phone)) >= MinPhoneDigits
  /\ Len(CleanPhone(phone)) <= MaxPhoneDigits

---------------------------------------------------------------------------
(* SimpleStorageManager over the one key the manager uses, 'session_id' *)

Item(value, expiry, timestamp) ==
  [value |-> value, expiry |-> expiry, timestamp |-> timestamp]

\* localStorage.getItem gives null: no item under the key
NoItem == Item(Null, 0, 0)

\* the last call of a helper; none so far
NoCall ==
  [op |-> "none", seconds |-> 0, value |-> Null, ttl |-> 0, failure |-> "none",
   returned |-> Null, threw |-> FALSE, at |-> 0]

\* what set wrote last; nothing so far
Written(value, ttl, t) == [value |-> value, ttl |-> ttl, at |-> t]
NoWritten == Written(Null, 0, 0)

\* an expiry test that already fails at the instant of expiry
StorageExpired_AtExpiry(st, t) == st # NoItem /\ st.expiry # 0 /\ t >= st.expiry

\* get: a missing item gives null; an item whose expiry has passed is removed
\* and gives null; otherwise the stored value
StorageExpired(st, t) == st # NoItem /\ st.expiry # 0 /\ t > st.expiry

StorageGetValue(st, t) ==
  IF st = NoItem \/ StorageExpired(st, t) THEN Null ELSE st.value

StorageAfterGet(st, t) == IF StorageExpired(st, t) THEN NoItem ELSE st

\* set: { value, expiry: expiry ? Date.now() + expiry : null, timestamp }
StorageSet(value, expiry, t) ==
  Item(value, IF expiry # 0 THEN t + expiry ELSE 0, t)

\* an entry under the key that JSON.parse rejects
Unparsable == Item("unparsable", 0, 0)

\* a value JSON.stringify rejects (an object that refers to itself)
Circular == "circular"

\* how the browser's storage fails during a call: not at all; every access
\* to localStorage throws (SecurityError); setItem throws (QuotaExceededError)
StorageFailures == {"none", "denied", "quota"}

Outcome(returned, st, threw) ==
  [returned |-> returned, store |-> st, threw |-> threw]

\* get(key) at time t: what it returns, the entry it leaves, whether it throws
SimpleStorageGet(st, t, failure) ==
  IF failure = "denied" \/ st = Unparsable
    THEN Outcome(Null, st, FALSE)
    ELSE Outcome(StorageGetValue(st, t), StorageAfterGet(st, t), FALSE)

\* a set that stores the TTL itself as the expiry
SimpleStorageSet_RelativeExpiry(st, value, expiry, t, failure) ==
  IF value = Circular \/ failure # "none"
    THEN Outcome(Null, st, FALSE)
    ELSE Outcome(Null, Item(value, expiry, t), FALSE)

\* set(key, value, expiry) at time t
SimpleStorageSet(st, value, expiry, t, failure) ==
  IF value = Circular \/ failure # "none"
    THEN Outcome(Null, st, FALSE)
    ELSE Outcome(Null, StorageSet(value, expiry, t), FALSE)

\* remove(key): localStorage.removeItem outside any try
SimpleStorageRemove(st, failure) ==
  IF failure = "denied"
    THEN Outcome(Null, st, TRUE)
    ELSE Outcome(Null, NoItem, FALSE)

\* clear(): Object.keys(localStorage) and removeItem outside any try
SimpleStorageClear(st, failure) ==
  IF failure = "denied"
    THEN Outcome(Null, st, TRUE)
    ELSE Outcome(Null, NoItem, FALSE)

---------------------------------------------------------------------------
(* Events of the SimpleEventEmitter, as the sequence of emit calls of a step *)

NoArg == [none |-> TRUE]
Ev(name, arg) == [name |-> name, arg |-> arg]

EventNames(es) == [i \in 1..Len(es) |-> es[i].name]
CountEv(es, name) == Cardinality({i \in 1..Len(es) : es[i].name = name})

---------------------------------------------------------------------------
(* SimpleEventEmitter: this.events maps an event to the array of its
   listeners. Three listeners stand for what a listener can do: return,
   throw, or remove itself with off while it is being called *)

Listeners == {"quiet", "thrower", "once"}

\* the events the callers of the model listen to
ListenedEvents == {"sessionCreated", "authCleared"}

\* this.events = {}
NoListeners == [event \in ListenedEvents |-> <<>>]

\* on(event, listener): the listener is pushed on the event's array
on(evs, event, listener) == [evs EXCEPT ![event] = Append(@, listener)]

\* off(event, listener): the event's array is replaced by one without it
off(evs, event, listener) ==
  [evs EXCEPT ![event] = SelectSeq(@, LAMBDA l : l # listener)]

\* removeAllListeners(): this.events = {}
removeAllListeners == NoListeners

\* the table after the listeners ls were called for event, one after the other
RECURSIVE CallAll(_, _, _)
CallAll(evs, event, ls) ==
  IF ls = <<>> THEN evs
  ELSE CallAll(IF Head(ls) = "once" THEN off(evs, event, "once") ELSE evs,
               event, Tail(ls))

\* an emit that lets what a listener throws through: the listeners after
\* the one that threw are not called
emit_StopsAtThrow(evs, event) ==
  IF event \notin DOMAIN evs \/ evs[event] = <<>>
    THEN [evs |-> evs, calls |-> <<>>, threw |-> FALSE]
    ELSE LET array == evs[event]
             throwers == {i \in 1..Len(array) : array[i] = "thrower"}
             stop == IF throwers = {} THEN Len(array)
                     ELSE CHOOSE i \in throwers : \A j \in throwers : i <= j
             reached == SubSeq(array, 1, stop)
         IN [evs |-> CallAll(evs, event, reached), calls |-> reached,
             threw |-> throwers # {}]

\* emit(event, ...args): forEach over the event's array as it is when emit
\* is called (an off during the emit replaces the array, it does not change
\* the one being walked), each listener inside try/catch: the table after,
\* the listeners called in order, and whether emit threw
emit(evs, event) ==
  IF event \notin DOMAIN evs \/ evs[event] = <<>>
    THEN [evs |-> evs, calls |-> <<>>, threw |-> FALSE]
    ELSE LET array == evs[event]
         IN [evs |-> CallAll(evs, event, array), calls |-> array,
             threw |-> FALSE]

\* the listeners registered for event and not removed since, in the order
\* of their registration
RegisteredFor(reg, event) ==
  LET own == SelectSeq(reg, LAMBDA r : r.event = event)
  IN [i \in 1..Len(own) |-> own[i].listener]

Unregister(reg, event, listener) ==
  SelectSeq(reg, LAMBDA r : ~(r.event = event /\ r.listener = listener))

\* the emit calls of a step, in order: an emit that throws ends the step's
\* remaining emits with it
RECURSIVE Deliveries(_, _, _)
Deliveries(evs, reg, es) ==
  IF es = <<>> THEN [evs |-> evs, reg |-> reg, log |-> <<>>]
  ELSE LET e == emit(evs, Head(es).name)
           entry == [event |-> Head(es).name, calls |-> e.calls,
                     threw |-> e.threw,
                     registered |-> RegisteredFor(reg, Head(es).name)]
           reg1 == IF \E i \in 1..Len(e.calls) : e.calls[i] = "once"
                     THEN Unregister(reg, Head(es).name, "once") ELSE reg
       IN IF e.threw
            THEN [evs |-> e.evs, reg |-> reg1, log |-> <<entry>>]
            ELSE LET rest == Deliveries(e.evs, reg1, Tail(es))
                 IN [rest EXCEPT !.log = <<entry>> \o @]

---------------------------------------------------------------------------
(* The part of the manager a handler changes, threaded through its calls *)

Mgr == [sessionId |-> sessionId, store |-> store,
        interval |-> sessionCheckInterval, emitted |-> <<>>]

Emit(m, name, arg) == [m EXCEPT !.emitted = Append(@, Ev(name, arg))]

\* an updateSession that records the id in memory only
UpdateSession_NotStored(m, sid, t) ==
  Emit([m EXCEPT !.sessionId = sid], "sessionUpdated", [sessionId |-> sid])

\* an updateSession that tells no listener
UpdateSession_Unannounced(m, sid, t) ==
  [m EXCEPT !.sessionId = sid, !.store = StorageSet(sid, SESSION_TTL, t)]

\* updateSession(sessionId)
UpdateSession(m, sid, t) ==
  Emit([m EXCEPT !.sessionId = sid,
                 !.store = StorageSet(sid, SESSION_TTL, t)],
       "sessionUpdated", [sessionId |-> sid])

\* a clearAuth that removes the stored item and keeps the id in memory
ClearAuth_StoreOnly(m) ==
  Emit([m EXCEPT !.store = NoItem, !.interval = FALSE], "authCleared", NoArg)

\* a clearAuth that forgets the id in memory and leaves the stored item
ClearAuth_KeepsStored(m) ==
  Emit([m EXCEPT !.sessionId = Null, !.interval = FALSE], "authCleared", NoArg)

\* clearAuth()
ClearAuth(m) ==
  Emit([m EXCEPT !.sessionId = Null, !.store = NoItem, !.interval = FALSE],
       "authCleared", NoArg)

\* a validateSession that finds a session whatever the manager holds
validateSession_Always(m) == m.sessionId = m.sessionId

\* validateSession()
validateSession(m) == m.sessionId # Null

---------------------------------------------------------------------------
(* AuthResponse objects and thrown values *)

AuthResponse(success, message, code, retryAllowed, technicalError, sid) ==
  [type |-> "AuthResponse", success |-> success, message |-> message,
   error_code |-> code, retry_allowed |-> retryAllowed,
   technical_error |-> technicalError, session_id |-> sid,
   fetchInMessage |-> FALSE]

\* createErrorResponse(message, errorCode, retryAllowed = false, technicalError = false)
createErrorResponse(message, code, retryAllowed, technicalError) ==
  AuthResponse({FALSE}, message, code, {retryAllowed}, {technicalError}, Absent)

\* the TypeError a failed fetch() rejects with; whether its message contains
\* 'fetch' depends on the browser ("Failed to fetch", "Load failed")
FetchTypeError(fetchInMessage) ==
  [type |-> "TypeError", success |-> {}, message |-> "network",
   error_code |-> Absent, retry_allowed |-> {}, technical_error |-> {},
   session_id |-> Absent, fetchInMessage |-> fetchInMessage]

NoResult == AuthResponse({}, "none", Absent, {}, {}, Absent)

\* a shouldRetry that retries whatever carries an error code
shouldRetry_AnyErrorCode(error) ==
  error.type = "TypeError" \/ error.error_code # Absent

\* a shouldRetry that also retries what the server marks retry_allowed
shouldRetry_RetryAllowed(error) ==
  \/ error.type = "AuthResponse" /\ Truthy(error.technical_error)
  \/ error.type = "AuthResponse" /\ Truthy(error.retry_allowed)
  \/ error.type = "AuthResponse" /\ error.error_code \in TECHNICAL_ERROR_CODES
  \/ error.type = "TypeError" /\ error.fetchInMessage

\* RetryManager.shouldRetry(error)
shouldRetry(error) ==
  IF error.type = "AuthResponse" /\ error.technical_error # {}
       /\ Truthy(error.technical_error)
    THEN TRUE
  ELSE IF error.type = "AuthResponse" /\ error.error_code # Absent
    THEN error.error_code \in TECHNICAL_ERROR_CODES
  ELSE IF error.type = "TypeError" /\ error.fetchInMessage
    THEN TRUE
  ELSE FALSE

\* shouldShowRetryButton(response)
shouldShowRetryButton(response) ==
  response.retry_allowed = {TRUE} \/ response.technical_error = {TRUE}

---------------------------------------------------------------------------
(* What the transport can answer to one request *)

HttpStatuses == {200, 400, 401, 429, 500, 501}

\* error codes a server reply carries in the model: none, two business-rule
\* codes and one technical code
ReplyCodes == {Absent, "INVALID_OTP", "SESSION_EXPIRED", "DATABASE_ERROR"}

NoBody ==
  [success |-> {}, error_code |-> Absent, technical_error |-> {},
   retry_allowed |-> {}, session_id |-> Absent]

Bodies ==
  [success : {{}, {FALSE}}, error_code : ReplyCodes,
   technical_error : {{}, {TRUE}}, retry_allowed : {{}, {TRUE}},
   session_id : Ids \cup {Absent}]

\* kind "http": a response arrived (parsable: its text is JSON or empty);
\* kind "neterr": fetch() rejected
Replies ==
  [kind : {"http"}, status : HttpStatuses, parsable : {TRUE},
   fetchInMessage : {FALSE}, body : Bodies]
  \cup
  [kind : {"http"}, status : HttpStatuses, parsable : {FALSE},
   fetchInMessage : {FALSE}, body : {NoBody}]
  \cup
  [kind : {"neterr"}, status : {0}, parsable : {FALSE},
   fetchInMessage : BOOLEAN, body : {NoBody}]

\* a smaller set with one answer for each path through the handlers,
\* for the specification that interleaves operations
CoreReplies ==
  {r \in Replies :
     \/ r.kind = "neterr"
     \/ ~r.parsable
     \/ /\ r.parsable
        /\ r.body.retry_allowed = {} /\ r.body.technical_error = {}
        /\ r.body.success = {}
        /\ \/ r.body.error_code = Absent
           \/ r.status = 400 /\ r.body.session_id = Absent
           \/ r.status = 200 /\ r.body.error_code = "SESSION_EXPIRED"
        /\ r.body.session_id = Absent \/ r.status \in {200, 401}}

NoReply ==
  [kind |-> "none", status |-> 0, parsable |-> FALSE,
   fetchInMessage |-> FALSE, body |-> NoBody]

\* response.ok
ResponseOk(status) == status >= 200 /\ status <= 299

\* the statuses the switch of handleResponse marks technical and retryable
MarkedTechnical(status) == status \in {500, 502, 503, 504}

\* handleResponse(response): the manager after it, whether it threw, and the
\* value returned or thrown
handleResponse(m, reply, t) ==
  IF ~reply.parsable
    THEN [m |-> m, threw |-> TRUE,
          value |-> createErrorResponse("Invalid response from server",
                                        "NETWORK_ERROR", TRUE, TRUE)]
  ELSE
    LET ok == ResponseOk(reply.status)
        data == reply.body
        responseData ==
          AuthResponse(IF data.success = {} THEN {ok} ELSE data.success,
                       "server", data.error_code, data.retry_allowed,
                       data.technical_error, data.session_id)
        m1 == IF responseData.session_id # Absent
                   /\ responseData.session_id # m.sessionId
                THEN UpdateSession(m, responseData.session_id, t)
                ELSE m
    IN IF ~ok
         THEN [m |-> IF reply.status = 401
                       THEN Emit(ClearAuth(m1), "authenticationRequired", NoArg)
                       ELSE m1,
               threw |-> TRUE,
               value |->
                 IF reply.status = 429
                   THEN [responseData EXCEPT !.retry_allowed = {TRUE}]
                 ELSE IF MarkedTechnical(reply.status)
                   THEN [responseData EXCEPT !.technical_error = {TRUE},
                                             !.retry_allowed = {TRUE}]
                 ELSE responseData]
         ELSE [m |-> m1, threw |-> FALSE, value |-> responseData]

---------------------------------------------------------------------------
(* Inputs the callers pass *)

Rep(c, n) == [i \in 1..n |-> c]

SixDigits == <<"1", "2", "3", "4", "5", "6">>

OtpInputs ==
  { <<>>,
    SixDigits,
    <<" ">> \o SixDigits \o <<" ", "\n">>,
    <<"1", "2", "3", "4", "5">>,
    SixDigits \o <<"7">>,
    <<"1", "2", "3", "a", "5", "6">>,
    <<"1", "2", "3", " ", "5", "6">>,
    <<"1", "2", " ", "3", "4", "5", "6">>,
    Rep(" ", 6) }

GoodEmail == <<"a", "@", "b", ".", "c", "o", "m">>
LongEmail == Rep("a", 250) \o <<"@", "b", ".", "c", "o">>

EmailInputs ==
  { <<>>,
    GoodEmail,
    <<"x">>,
    <<"a", "@", "b", ".", "c">>,
    <<" ">> \o GoodEmail,
    LongEmail }

GoodPhone == Rep("5", 10)

FormattedPhone ==
  <<"+", "1", " ", "(">> \o Rep("2", 3) \o <<")", " ">> \o Rep("3", 3)
    \o <<"-">> \o Rep("4", 4)

PhoneInputs ==
  { <<>>,
    GoodPhone,
    <<"y">>,
    FormattedPhone,
    Rep("5", 9),
    Rep("5", 16) }

Methods == {Absent, "email", "sms"}

NoInput == [otp |-> <<>>, email |-> <<>>, phone |-> <<>>, method |-> Absent]

\* a validateContactInput without the "not both" check
validateContactInput_AllowsBoth(email, phone) ==
  IF email = <<>> /\ phone = <<>>
    THEN createErrorResponse("Please provide either email or phone number",
                             "INVALID_INPUT", FALSE, FALSE)
  ELSE IF email # <<>> /\ ~validateEmailFormat(email)
    THEN createErrorResponse("Please enter a valid email address.",
                             "INVALID_EMAIL_FORMAT", FALSE, FALSE)
  ELSE IF phone # <<>> /\ ~validatePhoneFormat(phone)
    THEN createErrorResponse("Please enter a valid phone number.",
                             "INVALID_PHONE_FORMAT", FALSE, FALSE)
  ELSE NoResult

\* validateContactInput(email, phone): the error response, or NoResult for null
validateContactInput(email, phone) ==
  IF email = <<>> /\ phone = <<>>
    THEN createErrorResponse("Please provide either email or phone number",
                             "INVALID_INPUT", FALSE, FALSE)
  ELSE IF email # <<>> /\ phone # <<>>
    THEN createErrorResponse(
           "Please provide either email or phone number, not both.",
           "INVALID_INPUT", FALSE, FALSE)
  ELSE IF email # <<>> /\ ~validateEmailFormat(email)
    THEN createErrorResponse("Please enter a valid email address.",
                             "INVALID_EMAIL_FORMAT", FALSE, FALSE)
  ELSE IF phone # <<>> /\ ~validatePhoneFormat(phone)
    THEN createErrorResponse("Please enter a valid phone number.",
                             "INVALID_PHONE_FORMAT", FALSE, FALSE)
  ELSE NoResult

NoSessionResponse(message) ==
  createErrorResponse(message, "NO_SESSION", FALSE, FALSE)

---------------------------------------------------------------------------
(* Operations in flight *)

\* operations wrapped in RetryManager.withRetry
RetryOps ==
  {"createSession", "restartSession", "verifyContact", "verifyOTP", "resendOTP"}

\* validateExistingSession: from initialize ("initialize") and from the timer
\* and the page listeners ("validateExistingSession")
ValidateOps == {"initialize", "validateExistingSession"}

\* the name an operation passes to its retryAttempt event
OperationName(op) == IF op = "restartSession" THEN "createSession" ELSE op

Endpoint(op) ==
  CASE op \in {"createSession", "restartSession"} -> "session"
    [] op = "verifyContact" -> "verify-contact"
    [] op = "verifyOTP" -> "verify-otp"
    [] op = "resendOTP" -> "resend-otp"
    [] OTHER -> "status"

\* the request an attempt of op sends now: the session id is read from the
\* manager when the attempt starts
Request(op, m) ==
  [endpoint |-> Endpoint(op),
   sid |-> IF Endpoint(op) = "session" THEN Absent ELSE m.sessionId]

\* the requests one attempt of op sends ("operation" is the arbitrary
\* operation of a direct withRetry call, which is not the manager's)
Sent(op, m) == IF op = "operation" THEN <<>> ELSE <<Request(op, m)>>

Task(op, maxRetries, baseDelay, m) ==
  [op |-> op, attempt |-> 0, pc |-> "fetching", wait |-> 0,
   sid |-> Request(op, m).sid, maxRetries |-> maxRetries,
   baseDelay |-> baseDelay, onRetry |-> "returns"]

FreeSlot == BagCardinality(tasks) < MaxTasks

NoTask == [Task("none", 0, 0, Mgr) EXCEPT !.pc = "none", !.sid = Absent]

\* the record of one turn: what ran (act, op, input), the requests it sent,
\* the answer it handled, how the promise of the call settled (outcome,
\* result), the events emitted, the number of attempts made so far, the
\* backoff wait started, the session id and the stored item before the turn;
\* for a turn of withRetry also the task before the turn and what the
\* attempt itself returned or threw
Step(act, op, input, sent, reply, outcome, result, m, attempt, wait) ==
  [act |-> act, op |-> op, input |-> input, sent |-> sent, reply |-> reply,
   outcome |-> outcome, result |-> result, emitted |-> m.emitted,
   attempt |-> attempt, wait |-> wait,
   before |-> [sessionId |-> sessionId, store |-> store],
   task |-> NoTask, tried |-> NoResult]

\* between two turns of the event loop nothing is on record
IdleStep ==
  [act |-> "idle", op |-> "none", input |-> NoInput, sent |-> <<>>,
   reply |-> NoReply, outcome |-> "none", result |-> NoResult,
   emitted |-> <<>>, attempt |-> 0, wait |-> 0,
   before |-> [sessionId |-> Null, store |-> NoItem],
   task |-> NoTask, tried |-> NoResult]

\* the assignments every handler ends with
Commit(m) ==
  /\ sessionId' = m.sessionId
  /\ store' = m.store
  /\ sessionCheckInterval' = m.interval

---------------------------------------------------------------------------
(* One attempt of an operation passed to withRetry, from the arrival of the
   answer to its request: the manager after it, whether it threw, its value *)

\* an attempt that announces the operation's success on any answer that
\* handleResponse returned, a success: false among them
OperationBody_AnnouncesAnyAnswer(op, m, reply, t) ==
  IF reply.kind = "neterr"
    THEN [m |-> m, threw |-> TRUE, value |-> FetchTypeError(reply.fetchInMessage)]
  ELSE
    LET h == handleResponse(m, reply, t)
        result == h.value
    IN IF h.threw THEN h
       ELSE CASE op \in {"createSession", "restartSession"} ->
                   IF result.session_id # Absent
                     THEN [h EXCEPT !.m =
                             Emit(UpdateSession(h.m, result.session_id, t),
                                  "sessionCreated", result)]
                     ELSE h
              [] op = "verifyContact" ->
                   [h EXCEPT !.m = Emit(h.m, "contactVerified", result)]
              [] op = "verifyOTP" ->
                   [h EXCEPT !.m = Emit(Emit(h.m, "otpVerified", result),
                                        "authenticationSuccess", result)]
              [] op = "resendOTP" ->
                   [h EXCEPT !.m = Emit(h.m, "otpResent", result)]
              [] OTHER -> h

OperationBody(op, m, reply, t) ==
  IF reply.kind = "neterr"
    THEN [m |-> m, threw |-> TRUE, value |-> FetchTypeError(reply.fetchInMessage)]
  ELSE
    LET h == handleResponse(m, reply, t)
        result == h.value
    IN IF h.threw \/ ~Truthy(result.success) THEN h
       ELSE CASE op \in {"createSession", "restartSession"} ->
                   IF result.session_id # Absent
                     THEN [h EXCEPT !.m =
                             Emit(UpdateSession(h.m, result.session_id, t),
                                  "sessionCreated", result)]
                     ELSE h
              [] op = "verifyContact" ->
                   [h EXCEPT !.m = Emit(h.m, "contactVerified", result)]
              [] op = "verifyOTP" ->
                   [h EXCEPT !.m = Emit(Emit(h.m, "otpVerified", result),
                                        "authenticationSuccess", result)]
              [] op = "resendOTP" ->
                   [h EXCEPT !.m = Emit(h.m, "otpResent", result)]
              [] OTHER -> h

\* the onRetry option of a withRetry call: left out, a callback that returns
\* (every callback the manager passes is one: it logs and emits, and emit
\* catches what listeners throw), or a callback that throws
OnRetryKinds == {"absent", "returns", "throws"}

\* the Error a throwing onRetry callback throws
CallbackError ==
  [FetchTypeError(FALSE) EXCEPT !.type = "Error", !.message = "onRetry"]

\* the onRetry callback the operation passes to withRetry
onRetry(op, m, attempt, error) ==
  Emit(m, IF op = "operation" THEN "onRetry" ELSE "retryAttempt",
       [operation |-> OperationName(op), attempt |-> attempt, error |-> error])

\* a withRetry whose wait grows linearly: baseDelay * (attempt + 1)
withRetry_LinearBackoff(task, r) ==
  IF ~r.threw
    THEN [outcome |-> "resolved", value |-> r.value, m |-> r.m, wait |-> 0]
  ELSE IF task.attempt = task.maxRetries \/ ~shouldRetry(r.value)
    THEN [outcome |-> "rejected", value |-> r.value, m |-> r.m, wait |-> 0]
  ELSE IF task.onRetry = "throws"
    THEN [outcome |-> "rejected", value |-> CallbackError,
          m |-> onRetry(task.op, r.m, task.attempt + 1, r.value), wait |-> 0]
  ELSE [outcome |-> "retrying", value |-> NoResult,
        m |-> IF task.onRetry = "absent" THEN r.m
              ELSE onRetry(task.op, r.m, task.attempt + 1, r.value),
        wait |-> task.baseDelay * (task.attempt + 1)]

\* RetryManager.withRetry, one turn of its loop after the attempt settled
\* with r: return the value, throw the error, or call onRetry and wait; the
\* call of onRetry is inside the catch block, so what it throws leaves
\* withRetry
withRetry(task, r) ==
  IF ~r.threw
    THEN [outcome |-> "resolved", value |-> r.value, m |-> r.m, wait |-> 0]
  ELSE IF task.attempt = task.maxRetries \/ ~shouldRetry(r.value)
    THEN [outcome |-> "rejected", value |-> r.value, m |-> r.m, wait |-> 0]
  ELSE IF task.onRetry = "throws"
    THEN [outcome |-> "rejected", value |-> CallbackError,
          m |-> onRetry(task.op, r.m, task.attempt + 1, r.value), wait |-> 0]
  ELSE [outcome |-> "retrying", value |-> NoResult,
        m |-> IF task.onRetry = "absent" THEN r.m
              ELSE onRetry(task.op, r.m, task.attempt + 1, r.value),
        wait |-> task.baseDelay * Pow2(task.attempt)]

\* getSessionStatus() from the arrival of the answer: it catches what fetch
\* and handleResponse throw and returns it
\* a getSessionStatus that clears the session itself when the server
\* reports it expired
getSessionStatus_ClearsExpired(m, reply, t) ==
  IF reply.kind = "neterr"
    THEN [m |-> m, value |-> FetchTypeError(reply.fetchInMessage)]
    ELSE LET h == handleResponse(m, reply, t)
         IN [m |-> IF h.value.error_code = "SESSION_EXPIRED"
                     THEN ClearAuth(h.m) ELSE h.m,
             value |-> h.value]

\* getSessionStatus() from the arrival of the answer
getSessionStatus(m, reply, t) ==
  IF reply.kind = "neterr"
    THEN [m |-> m, value |-> FetchTypeError(reply.fetchInMessage)]
    ELSE LET h == handleResponse(m, reply, t)
         IN [m |-> h.m, value |-> h.value]

\* a validateExistingSession that keeps a valid session without announcing it
validateExistingSession_Silent(m, reply, t) ==
  LET g == getSessionStatus(m, reply, t)
      status == g.value
  IN IF ~Truthy(status.success) \/ status.error_code = "SESSION_EXPIRED"
       THEN [m |-> ClearAuth(g.m), value |-> status]
       ELSE [m |-> g.m, value |-> status]

\* validateExistingSession() from the arrival of the status
validateExistingSession(m, reply, t) ==
  LET g == getSessionStatus(m, reply, t)
      status == g.value
  IN IF ~Truthy(status.success) \/ status.error_code = "SESSION_EXPIRED"
       THEN [m |-> ClearAuth(g.m), value |-> status]
       ELSE [m |-> Emit(g.m, "sessionRestored", status), value |-> status]

\* startSessionCheck()
startSessionCheck(m) == [m EXCEPT !.interval = TRUE]

---------------------------------------------------------------------------
(* The chat component's mirror of the session, driven by the manager's
   events *)

\* the component's state before it is mounted: authStep 'session'
NoChat == [authStep |-> "session", sessionId |-> Null, isAuthenticated |-> FALSE]

\* the listener the component registered for the event, applied to its state
HandleEvent(c, e) ==
  CASE e.name = "authenticationSuccess" ->
         [c EXCEPT !.isAuthenticated = TRUE, !.authStep = "authenticated"]
    [] e.name = "contactVerified" -> [c EXCEPT !.authStep = "otp"]
    [] e.name = "sessionCreated" ->
         [c EXCEPT !.sessionId = e.arg.session_id, !.authStep = "contact"]
    [] OTHER -> c

RECURSIVE HandleEvents(_, _)
HandleEvents(c, es) ==
  IF es = <<>> THEN c ELSE HandleEvents(HandleEvent(c, Head(es)), Tail(es))

\* the turn's events reach the component's listeners
Heard ==
  /\ chat' = HandleEvents(chat, last'.emitted)
  /\ UNCHANGED <<hookVars, helperVars, serverVars, emitterVars>>

\* the component is mounted over a manager that holds no session
Mounted ==
  /\ chat' = [NoChat EXCEPT !.authStep = "contact"]
  /\ UNCHANGED <<hookVars, helperVars, serverVars, emitterVars>>

\* neither the component nor the OTP poller is part of the run
OnlyManager == UNCHANGED <<chat, hookVars, helperVars, serverVars, emitterVars>>

\* the manager against a server that counts: the rest is not part of the run
OnlyManagerAndServer == UNCHANGED <<chat, hookVars, helperVars, emitterVars>>

---------------------------------------------------------------------------
(* The OTP poller: the hook useOTPStatus(sessionId) *)

\* the shortest time between two fetches that refreshStatus allows, in ms
MIN_FETCH_GAP == 1000

\* the delay of the timer that the session effect arms, in ms
FIRST_POLL_INTERVAL == 1000

\* the step of the poller's clock, in ms: the shortest delay of a timer
Quantum == 500

MaxFetches == 2

RemainingSeconds == {45, 60, 61, 180, 181, 200}

\* otpStatus null
NoStatus == [otp_active |-> FALSE, remaining_seconds |-> 0 - 1, for |-> Null]

\* the data of a successful otp-status reply to a request made for session sid
Statuses(sid) ==
  {[otp_active |-> TRUE, remaining_seconds |-> n, for |-> sid] :
     n \in RemainingSeconds}
  \cup {[otp_active |-> FALSE, remaining_seconds |-> 0, for |-> sid]}

\* the states and refs of the hook, threaded through its functions
Hook ==
  [otpStatus |-> otpStatus, isLoading |-> isLoading, error |-> hookError,
   intervalRef |-> intervalRef, timers |-> timers,
   sinceLastFetch |-> sinceLastFetch, fetches |-> fetches]

NewHook ==
  [otpStatus |-> NoStatus, isLoading |-> FALSE, error |-> FALSE,
   intervalRef |-> 0, timers |-> {}, sinceLastFetch |-> MIN_FETCH_GAP,
   fetches |-> EmptyBag]

CommitHook(h) ==
  /\ otpStatus' = h.otpStatus
  /\ isLoading' = h.isLoading
  /\ hookError' = h.error
  /\ intervalRef' = h.intervalRef
  /\ timers' = h.timers
  /\ sinceLastFetch' = h.sinceLastFetch
  /\ fetches' = h.fetches

\* a clearInterval that cancels nothing
ClearInterval_Nothing(h) == [h EXCEPT !.timers = @]

\* if (intervalRef.current) clearInterval(intervalRef.current)
ClearInterval(h) ==
  [h EXCEPT !.timers = {t \in @ : t.id # h.intervalRef}]

\* intervalRef.current = setInterval(() => refreshStatus(), delay), the
\* callback being the refreshStatus of the render with session sid
SetInterval(h, delay, sid) ==
  LET id == CHOOSE i \in 1..(Cardinality(h.timers) + 1) :
              \A t \in h.timers : t.id # i
  IN [h EXCEPT !.timers = @ \cup {[id |-> id, delay |-> delay, age |-> 0,
                                   sid |-> sid]},
               !.intervalRef = id]

\* a refreshStatus() that does not look at the time of the last fetch
refreshStatus_Unthrottled(h, sid) ==
  IF sid = Null
    THEN [h EXCEPT !.otpStatus = NoStatus, !.error = FALSE]
  ELSE [h EXCEPT !.sinceLastFetch = 0, !.isLoading = TRUE, !.error = FALSE,
                 !.fetches = @ (+) SetToBag({[sid |-> sid]})]

\* refreshStatus() of the render with session sid, up to its await
refreshStatus(h, sid) ==
  IF sid = Null
    THEN [h EXCEPT !.otpStatus = NoStatus, !.error = FALSE]
  ELSE IF h.sinceLastFetch < MIN_FETCH_GAP
    THEN h
  ELSE [h EXCEPT !.sinceLastFetch = 0, !.isLoading = TRUE, !.error = FALSE,
                 !.fetches = @ (+) SetToBag({[sid |-> sid]})]

\* the cleanup the session effect returned when it ran with a session
SessionCleanup(h, sid) ==
  IF sid = Null THEN h ELSE [ClearInterval(h) EXCEPT !.intervalRef = 0]

\* setupPolling()
setupPolling(h, sid) == SetInterval(ClearInterval(h), FIRST_POLL_INTERVAL, sid)

\* a session effect that leaves the status when the session id is null
SessionEffect_KeepsStatus(h, sid) ==
  IF sid = Null
    THEN [ClearInterval(h) EXCEPT !.intervalRef = 0]
    ELSE setupPolling(refreshStatus(h, sid), sid)

\* the effect on [sessionId, refreshStatus]
SessionEffect(h, sid) ==
  IF sid = Null
    THEN [ClearInterval(h) EXCEPT !.intervalRef = 0, !.otpStatus = NoStatus]
    ELSE setupPolling(refreshStatus(h, sid), sid)

\* a pollInterval that keeps the delay of the first timer
pollInterval_Fixed(status) == FIRST_POLL_INTERVAL + 0 * status.remaining_seconds

\* the delay the adaptive effect chooses for a status
pollInterval(status) ==
  IF ~status.otp_active THEN 5000
  ELSE IF status.remaining_seconds <= 60 THEN 500
  ELSE IF status.remaining_seconds <= 180 THEN 1000
  ELSE 2000

\* the effect on [otpStatus, sessionId, refreshStatus]; status is the
\* otpStatus of the render the effect belongs to
AdaptiveEffect(h, status, sid) ==
  IF status = NoStatus \/ sid = Null
    THEN h
    ELSE SetInterval(ClearInterval(h), pollInterval(status), sid)

\* the effects of the render after the session id changed from old to sid
\* (the otpStatus of that render is the one held before); setOtpStatus(null)
\* in the session effect causes one more render, whose adaptive effect
\* returns at once
SessionChanged(h, old, sid) ==
  LET status == h.otpStatus
      h1 == SessionEffect(SessionCleanup(h, old), sid)
      h2 == AdaptiveEffect(h1, status, sid)
  IN AdaptiveEffect(h2, h2.otpStatus, sid)

\* what the server can answer to an otp-status request made for sid
StatusReplies(sid) ==
  [kind : {"data"}, data : Statuses(sid)]
  \cup [kind : {"nodata", "failed", "error"}, data : {NoStatus}]

\* a refreshStatus() whose failure stops the timer
Fetched_StopsOnFailure(h, reply, sid) ==
  LET h1 == [h EXCEPT !.isLoading = FALSE]
  IN CASE reply.kind = "data" ->
            AdaptiveEffect([h1 EXCEPT !.otpStatus = reply.data],
                           reply.data, sid)
       [] reply.kind = "nodata" -> [h1 EXCEPT !.otpStatus = NoStatus]
       [] OTHER ->
            [ClearInterval(h1) EXCEPT !.otpStatus = NoStatus, !.error = TRUE,
                                      !.intervalRef = 0]

\* the rest of refreshStatus() after its await, and the effects of the
\* render it causes
Fetched(h, reply, sid) ==
  LET h1 == [h EXCEPT !.isLoading = FALSE]
  IN CASE reply.kind = "data" ->
            AdaptiveEffect([h1 EXCEPT !.otpStatus = reply.data],
                           reply.data, sid)
       [] reply.kind = "nodata" -> [h1 EXCEPT !.otpStatus = NoStatus]
       [] reply.kind = "failed" ->
            [h1 EXCEPT !.otpStatus = NoStatus, !.error = TRUE]
       [] OTHER -> [h1 EXCEPT !.error = TRUE]

\* the manager, the chat component and the helpers are not part of the run
OnlyPoller == UNCHANGED <<managerVars, chat, helperVars, serverVars, emitterVars>>

\* getUrgencyLevel(seconds)
getUrgencyLevel_Strict(seconds) ==
  IF seconds <= 0 THEN "expired"
  ELSE IF seconds < 30 THEN "critical"
  ELSE IF seconds < 60 THEN "urgent"
  ELSE IF seconds < 180 THEN "warning"
  ELSE "normal"

getUrgencyLevel(seconds) ==
  IF seconds <= 0 THEN "expired"
  ELSE IF seconds <= 30 THEN "critical"
  ELSE IF seconds <= 60 THEN "urgent"
  ELSE IF seconds <= 180 THEN "warning"
  ELSE "normal"

\* the seconds the component asks the urgency of
SecondsTried == {0 - 1, 0, 1, 29, 30, 31, 60, 61, 180, 181}

\* no more than MaxFetches requests are in flight in the model
WithinFetches(h) == BagCardinality(h.fetches) <= MaxFetches

\* the component that uses the hook is mounted with session sid
Mount(sid) ==
  /\ ~mounted /\ fetches = EmptyBag
  /\ mounted' = TRUE
  /\ hookSessionId' = sid
  /\ CommitHook(SessionChanged(NewHook, Null, sid))

\* the component is rendered with another session id
SetSessionId(sid) ==
  /\ mounted /\ sid # hookSessionId
  /\ WithinFetches(SessionChanged(Hook, hookSessionId, sid))
  /\ hookSessionId' = sid
  /\ CommitHook(SessionChanged(Hook, hookSessionId, sid))
  /\ UNCHANGED mounted

\* the component calls the refreshStatus the hook returned
CallRefreshStatus ==
  /\ mounted
  /\ WithinFetches(refreshStatus(Hook, hookSessionId))
  /\ CommitHook(refreshStatus(Hook, hookSessionId))
  /\ UNCHANGED <<mounted, hookSessionId>>

\* a timer is due: its callback runs and the timer starts over
TimerFires(t) ==
  /\ t \in timers /\ t.age = t.delay
  /\ LET h == [Hook EXCEPT !.timers = (@ \ {t}) \cup {[t EXCEPT !.age = 0]}]
     IN /\ WithinFetches(refreshStatus(h, t.sid))
        /\ CommitHook(refreshStatus(h, t.sid))
  /\ UNCHANGED <<mounted, hookSessionId>>

\* Quantum ms pass: none while a timer is due
Elapse ==
  /\ \A t \in timers : t.age < t.delay
  /\ timers' = {[t EXCEPT !.age = @ + Quantum] : t \in timers}
  /\ sinceLastFetch' = IF sinceLastFetch + Quantum < MIN_FETCH_GAP
                         THEN sinceLastFetch + Quantum ELSE MIN_FETCH_GAP
  /\ \/ timers' # timers
     \/ sinceLastFetch' # sinceLastFetch
  /\ UNCHANGED <<mounted, hookSessionId, otpStatus, isLoading, hookError,
                 intervalRef, fetches>>

\* the answer to a request in flight arrives; the setters of a component
\* that is no longer mounted do nothing
FetchSettles(f, reply) ==
  /\ f \in BagToSet(fetches)
  /\ LET h == [Hook EXCEPT !.fetches = @ (-) SetToBag({f})]
     IN CommitHook(IF mounted THEN Fetched(h, reply, hookSessionId) ELSE h)
  /\ UNCHANGED <<mounted, hookSessionId>>

\* the component calls the getUrgencyLevel the hook returned
CallGetUrgencyLevel(seconds) ==
  /\ mounted
  /\ called' = [NoCall EXCEPT !.op = "getUrgencyLevel", !.seconds = seconds,
                              !.returned = getUrgencyLevel(seconds)]
  /\ UNCHANGED hookVars

\* the component is unmounted: the cleanups of the session effect and of
\* the unmount effect run
Unmount ==
  /\ mounted
  /\ mounted' = FALSE
  /\ CommitHook(ClearInterval(SessionCleanup(Hook, hookSessionId)))
  /\ UNCHANGED hookSessionId

---------------------------------------------------------------------------
(* The server's count of contact verifications, as the specification
   describes it: bounded counters, a session locked when they run out *)

MaxContactAttempts == 3

Counters(attempts, remaining, state) ==
  [contact_attempts |-> attempts, max_contact_attempts |-> MaxContactAttempts,
   remaining_contact_attempts |-> remaining, state |-> state]

\* no session on the server; no answer held by the client
NoCounters == Counters(0, MaxContactAttempts, "none")

\* the server creates a session
ServerCreates == Counters(0, MaxContactAttempts, "contact_verification")

\* a server that goes on counting in a session that takes no more attempts
ServerVerifiesContact_Unguarded(sv, ok) ==
  Counters(sv.contact_attempts + 1, sv.remaining_contact_attempts - 1,
           IF ok THEN "otp_verification" ELSE sv.state)

\* the server handles a contact verification that succeeds (ok) or fails
ServerVerifiesContact(sv, ok) ==
  IF sv.state # "contact_verification" THEN sv
  ELSE Counters(sv.contact_attempts + 1, sv.remaining_contact_attempts - 1,
                IF ok THEN "otp_verification"
                ELSE IF sv.remaining_contact_attempts = 1 THEN "locked"
                ELSE "contact_verification")

\* the answer of the turn came from the server's handler: a parsable 200
\* or 400
Handled(reply) ==
  reply.kind = "http" /\ reply.parsable /\ reply.status \in {200, 400}

\* what the server did to give the answer of this turn, and the counters
\* that reach the client in it (handleResponse passes them on as they are)
ServerAnswered ==
  LET op == last'.op
      reply == last'.reply
      ok == reply.status = 200
  IN IF ~Handled(reply) THEN UNCHANGED serverVars
     ELSE IF op = "createSession"
       THEN /\ server' = IF ok /\ reply.body.session_id \in Ids
                           THEN ServerCreates ELSE server
            /\ UNCHANGED statusHeld
     ELSE IF op = "verifyContact"
       THEN /\ ok => server.state = "contact_verification"
            /\ server' = ServerVerifiesContact(server, ok)
            /\ statusHeld' = server'
     ELSE IF op \in {"getSessionStatus", "validateExistingSession",
                     "initialize"}
       THEN /\ ok => server.state # "none"
            /\ UNCHANGED server
            /\ statusHeld' = IF ok THEN server ELSE statusHeld
     ELSE UNCHANGED serverVars

---------------------------------------------------------------------------
(* Actions *)

Init ==
  /\ alive = FALSE
  /\ sessionId = Null
  /\ store = NoItem
  /\ now = 0
  /\ initialized = FALSE
  /\ sessionCheckInterval = FALSE
  /\ listening = FALSE
  /\ tasks = EmptyBag
  /\ last = IdleStep
  /\ chat = NoChat
  /\ mounted = FALSE
  /\ hookSessionId = Null
  /\ otpStatus = NoStatus
  /\ isLoading = FALSE
  /\ hookError = FALSE
  /\ intervalRef = 0
  /\ timers = {}
  /\ sinceLastFetch = MIN_FETCH_GAP
  /\ fetches = EmptyBag
  /\ called = NoCall
  /\ written = NoWritten
  /\ server = NoCounters
  /\ statusHeld = NoCounters
  /\ events = NoListeners
  /\ registered = <<>>
  /\ delivered = <<>>

Start(task) == tasks' = tasks (+) SetToBag({task})
Finish(task) == tasks' = tasks (-) SetToBag({task})
Replace(task, new) == tasks' = (tasks (-) SetToBag({task})) (+) SetToBag({new})

\* new BackendAlignedAuthService(): the constructor runs initialize() up to
\* its first await
Construct ==
  /\ ~alive
  /\ alive' = TRUE
  /\ LET sid == StorageGetValue(store, now)
         m0 == [Mgr EXCEPT !.sessionId = sid,
                           !.store = StorageAfterGet(store, now)]
     IN IF sid # Null
          THEN /\ Commit(m0)
               /\ Start(Task("initialize", 0, 0, m0))
               /\ UNCHANGED <<initialized, listening>>
               /\ last' = Step("construct", "initialize", NoInput,
                               <<Request("initialize", m0)>>, NoReply,
                               "pending", NoResult, m0, 1, 0)
          ELSE LET m1 == Emit(startSessionCheck(m0), "initialized",
                              [hasSession |-> m0.sessionId # Null])
               IN /\ Commit(m1)
                  /\ initialized' = TRUE
                  /\ listening' = TRUE
                  /\ UNCHANGED tasks
                  /\ last' = Step("construct", "initialize", NoInput, <<>>,
                                  NoReply, "resolved", NoResult, m1, 0, 0)
  /\ UNCHANGED now

\* the page is reloaded or closed: the instance and its pending work are gone,
\* localStorage stays
Reload ==
  /\ alive
  /\ alive' = FALSE
  /\ sessionId' = Null
  /\ initialized' = FALSE
  /\ sessionCheckInterval' = FALSE
  /\ listening' = FALSE
  /\ tasks' = EmptyBag
  /\ last' = Step("reload", "none", NoInput, <<>>, NoReply, "none", NoResult,
                  [Mgr EXCEPT !.sessionId = Null], 0, 0)
  /\ UNCHANGED <<store, now>>

Tick ==
  /\ now < MaxTicks * TickMs
  /\ now' = now + TickMs
  /\ last' = Step("tick", "none", NoInput, <<>>, NoReply, "none", NoResult,
                  Mgr, 0, 0)
  /\ UNCHANGED <<alive, sessionId, store, initialized, sessionCheckInterval,
                 listening, tasks>>

\* a call of the storage manager: its outcome reaches the caller and the entry
StorageCall(op, value, ttl, failure, out) ==
  /\ store' = out.store
  /\ called' = [NoCall EXCEPT !.op = op, !.value = value, !.ttl = ttl,
                              !.failure = failure, !.returned = out.returned,
                              !.threw = out.threw, !.at = now]
  /\ UNCHANGED <<alive, sessionId, now, initialized, sessionCheckInterval,
                 listening, tasks, last, chat, hookVars, serverVars,
                 emitterVars>>

\* storage.get('session_id')
StorageGet(failure) ==
  /\ StorageCall("get", Null, 0, failure, SimpleStorageGet(store, now, failure))
  /\ UNCHANGED written

\* storage.set('session_id', value, ttl)
StorageSetCall(value, ttl, failure) ==
  /\ StorageCall("set", value, ttl, failure,
                 SimpleStorageSet(store, value, ttl, now, failure))
  /\ written' = IF failure = "none" /\ value # Circular
                  THEN Written(value, ttl, now) ELSE written

\* storage.remove('session_id')
StorageRemove(failure) ==
  /\ StorageCall("remove", Null, 0, failure, SimpleStorageRemove(store, failure))
  /\ written' = IF failure = "denied" THEN written ELSE NoWritten

\* storage.clear()
StorageClear(failure) ==
  /\ StorageCall("clear", Null, 0, failure, SimpleStorageClear(store, failure))
  /\ written' = IF failure = "denied" THEN written ELSE NoWritten

\* something else than the storage manager writes under the key
Corrupt ==
  /\ store # Unparsable
  /\ store' = Unparsable
  /\ written' = Written("unknown", 0, now)
  /\ UNCHANGED <<alive, sessionId, now, initialized, sessionCheckInterval,
                 listening, tasks, last, chat, hookVars, called, serverVars,
                 emitterVars>>

\* a call that sends its first request
Send(act, op, input, m) ==
  /\ FreeSlot
  /\ Start(Task(op, DEFAULT_MAX_RETRIES, DEFAULT_BASE_DELAY, m))
  /\ Commit(m)
  /\ last' = Step(act, op, input, <<Request(op, m)>>, NoReply, "pending",
                  NoResult, m, 1, 0)

\* a call that returns a failure without sending anything
Local(op, input, result) ==
  /\ UNCHANGED <<sessionId, store, sessionCheckInterval, tasks>>
  /\ last' = Step("call", op, input, <<>>, NoReply, "resolved", result,
                  Mgr, 0, 0)

createSession ==
  /\ alive
  /\ Send("call", "createSession", NoInput, Mgr)
  /\ UNCHANGED <<alive, now, initialized, listening>>

restartSession ==
  /\ alive
  /\ Send("call", "restartSession", NoInput,
          Emit(ClearAuth(Mgr), "sessionRestarted", NoArg))
  /\ UNCHANGED <<alive, now, initialized, listening>>

verifyContact(email, phone, preferredMethod) ==
  /\ alive
  /\ LET input == [NoInput EXCEPT !.email = email, !.phone = phone,
                                  !.method = preferredMethod]
         validationError == validateContactInput(email, phone)
     IN IF ~validateSession(Mgr)
          THEN Local("verifyContact", input,
                     NoSessionResponse("No active session. Please refresh and try again."))
        ELSE IF validationError # NoResult
          THEN Local("verifyContact", input, validationError)
        ELSE Send("call", "verifyContact", input, Mgr)
  /\ UNCHANGED <<alive, now, initialized, listening>>

verifyOTP(otp) ==
  /\ alive
  /\ LET input == [NoInput EXCEPT !.otp = otp]
     IN IF ~validateSession(Mgr)
          THEN Local("verifyOTP", input,
                     NoSessionResponse("No active session. Please refresh and try again."))
        ELSE IF ~validateOTPFormat(otp)
          THEN Local("verifyOTP", input,
                     createErrorResponse("Please enter a valid 6-digit OTP.",
                                         "INVALID_OTP", FALSE, FALSE))
        ELSE Send("call", "verifyOTP", input, Mgr)
  /\ UNCHANGED <<alive, now, initialized, listening>>

resendOTP ==
  /\ alive
  /\ IF ~validateSession(Mgr)
       THEN Local("resendOTP", NoInput,
                  NoSessionResponse("No active session. Please refresh and try again."))
       ELSE Send("call", "resendOTP", NoInput, Mgr)
  /\ UNCHANGED <<alive, now, initialized, listening>>

callGetSessionStatus ==
  /\ alive
  /\ IF ~validateSession(Mgr)
       THEN Local("getSessionStatus", NoInput,
                  NoSessionResponse("No active session found."))
       ELSE Send("call", "getSessionStatus", NoInput, Mgr)
  /\ UNCHANGED <<alive, now, initialized, listening>>


\* the answer to the request of an operation under withRetry arrives
RetryOpSettles(task, reply, r) ==
  LET w == withRetry(task, r)
  IN /\ IF w.outcome = "retrying"
          THEN Replace(task, [task EXCEPT !.pc = "delaying", !.wait = w.wait])
          ELSE Finish(task)
     /\ Commit(w.m)
     /\ last' = [Step("reply", task.op, NoInput, <<>>, reply, w.outcome,
                      w.value, w.m, task.attempt + 1, w.wait)
                   EXCEPT !.task = task, !.tried = r.value]

ReplyToRetryOp(task, reply) ==
  /\ task.op \in RetryOps
  /\ task.pc = "fetching"
  /\ RetryOpSettles(task, reply, OperationBody(task.op, Mgr, reply, now))
  /\ UNCHANGED <<alive, now, initialized, listening>>

\* RetryManager.withRetry(operation, {maxRetries, baseDelay, onRetry}) on an
\* arbitrary operation: the first attempt starts
callWithRetry(maxRetries, baseDelay, callback) ==
  /\ Start([Task("operation", maxRetries, baseDelay, Mgr)
              EXCEPT !.onRetry = callback])
  /\ last' = Step("call", "operation", NoInput, <<>>, NoReply, "pending",
                  NoResult, Mgr, 1, 0)
  /\ UNCHANGED <<alive, sessionId, store, now, initialized,
                 sessionCheckInterval, listening>>

\* what an arbitrary operation can settle with: a value, or a thrown
\* response-like object, TypeError or other Error
OtherError == [FetchTypeError(FALSE) EXCEPT !.type = "Error", !.message = "other"]

Thrown ==
  {AuthResponse({FALSE}, "failure", code, {}, technical, Absent) :
     code \in {Absent, "INVALID_OTP", "DATABASE_ERROR", "SEND_FAILED"},
     technical \in {{}, {TRUE}, {FALSE}}}
  \cup {FetchTypeError(TRUE), FetchTypeError(FALSE), OtherError}

Outcomes ==
  [threw : {TRUE}, value : Thrown]
  \cup [threw : {FALSE}, value : {AuthResponse({TRUE}, "Success", Absent, {}, {}, Absent)}]

\* an attempt of the arbitrary operation settles
OperationSettles(task, o) ==
  /\ task.op = "operation"
  /\ task.pc = "fetching"
  /\ RetryOpSettles(task, NoReply, [m |-> Mgr, threw |-> o.threw, value |-> o.value])
  /\ UNCHANGED <<alive, now, initialized, listening>>

\* the backoff wait of withRetry ends: the loop calls the operation again,
\* which sends its request
Wake(task) ==
  /\ task.pc = "delaying"
  /\ Replace(task, [task EXCEPT !.pc = "fetching", !.wait = 0,
                                !.attempt = @ + 1,
                                !.sid = Request(task.op, Mgr).sid])
  /\ last' = [Step("wake", task.op, NoInput, Sent(task.op, Mgr),
                   NoReply, "pending", NoResult, Mgr, task.attempt + 2, 0)
                EXCEPT !.task = task]
  /\ UNCHANGED <<alive, sessionId, store, now, initialized,
                 sessionCheckInterval, listening>>

\* the answer to a getSessionStatus() call of the page arrives
ReplyToStatus(task, reply) ==
  /\ task.op = "getSessionStatus"
  /\ task.pc = "fetching"
  /\ LET g == getSessionStatus(Mgr, reply, now)
     IN /\ Commit(g.m)
        /\ last' = [Step("reply", task.op, NoInput, <<>>, reply, "resolved",
                        g.value, g.m, 1, 0)
                     EXCEPT !.task = task]
  /\ Finish(task)
  /\ UNCHANGED <<alive, now, initialized, listening>>

\* the answer to the status request of a passive re-validation arrives
ReplyToValidate(task, reply) ==
  /\ task.op = "validateExistingSession"
  /\ task.pc = "fetching"
  /\ LET v == validateExistingSession(Mgr, reply, now)
     IN /\ Commit(v.m)
        /\ last' = [Step("reply", task.op, NoInput, <<>>, reply, "resolved",
                        v.value, v.m, 1, 0)
                     EXCEPT !.task = task]
  /\ Finish(task)
  /\ UNCHANGED <<alive, now, initialized, listening>>

\* the answer to the status request of initialize() arrives: the rest of
\* initialize() runs
ReplyToInitialize(task, reply) ==
  /\ task.op = "initialize"
  /\ task.pc = "fetching"
  /\ LET v == validateExistingSession(Mgr, reply, now)
         m1 == startSessionCheck(v.m)
         m2 == Emit(m1, "initialized", [hasSession |-> m1.sessionId # Null])
     IN /\ Commit(m2)
        /\ last' = [Step("reply", task.op, NoInput, <<>>, reply, "resolved",
                        v.value, m2, 1, 0)
                     EXCEPT !.task = task]
  /\ initialized' = TRUE
  /\ listening' = TRUE
  /\ Finish(task)
  /\ UNCHANGED <<alive, now>>

\* the setInterval callback of startSessionCheck
SessionCheckFires ==
  /\ alive /\ sessionCheckInterval
  /\ sessionId # Null
  /\ Send("timer", "validateExistingSession", NoInput, Mgr)
  /\ UNCHANGED <<alive, now, initialized, listening>>

\* document 'visibilitychange' with visibilityState 'visible'
VisibilityVisible ==
  /\ alive /\ listening
  /\ sessionId # Null
  /\ Send("visible", "validateExistingSession", NoInput, Mgr)
  /\ UNCHANGED <<alive, now, initialized, listening>>

\* window 'online'
Online ==
  /\ alive /\ listening
  /\ LET m == Emit(Mgr, "connectionRestored", NoArg)
     IN IF sessionId # Null
          THEN Send("online", "validateExistingSession", NoInput, m)
          ELSE /\ last' = Step("online", "none", NoInput, <<>>, NoReply,
                               "none", NoResult, m, 0, 0)
               /\ UNCHANGED <<sessionId, store, sessionCheckInterval, tasks>>
  /\ UNCHANGED <<alive, now, initialized, listening>>

\* window 'offline'
Offline ==
  /\ alive /\ listening
  /\ last' = Step("offline", "none", NoInput, <<>>, NoReply, "none", NoResult,
                  Emit(Mgr, "connectionLost", NoArg), 0, 0)
  /\ UNCHANGED <<alive, sessionId, store, now, initialized,
                 sessionCheckInterval, listening, tasks>>

\* the turn of the event loop is over: its record is dropped
Idle ==
  /\ last.act # "idle"
  /\ last' = IdleStep
  /\ UNCHANGED <<alive, sessionId, store, now, initialized,
                 sessionCheckInterval, listening, tasks>>

Ready == last.act = "idle"

\* the calls of the page, with the inputs drawn from the given sets
Calls(emails, phones, methods, otps) ==
  \/ createSession
  \/ restartSession
  \/ \E email \in emails, phone \in phones, method \in methods :
       verifyContact(email, phone, method)
  \/ \E otp \in otps : verifyOTP(otp)
  \/ resendOTP
  \/ callGetSessionStatus

\* destroy(): the interval is cleared, the emitter's listeners are removed and
\* initialized is reset; the listeners setupEventListeners added to document
\* and window stay, no removeEventListener being called
Destroy ==
  /\ alive
  /\ sessionCheckInterval' = FALSE
  /\ initialized' = FALSE
  /\ events' = removeAllListeners
  /\ registered' = <<>>
  /\ last' = Step("destroy", "none", NoInput, <<>>, NoReply, "none", NoResult,
                  Mgr, 0, 0)
  /\ UNCHANGED <<alive, sessionId, store, now, listening, tasks>>

\* the timer and the page events the manager listens to
Passive ==
  \/ SessionCheckFires
  \/ VisibilityVisible
  \/ Online
  \/ Offline

\* an answer, drawn from the given set, to a request in flight
Answers(replies) ==
  \/ \E task \in BagToSet(tasks), reply \in replies : ReplyToRetryOp(task, reply)
  \/ \E task \in BagToSet(tasks), reply \in replies : ReplyToStatus(task, reply)
  \/ \E task \in BagToSet(tasks), reply \in replies : ReplyToValidate(task, reply)
  \/ \E task \in BagToSet(tasks), reply \in replies : ReplyToInitialize(task, reply)

Wakes == \E task \in BagToSet(tasks) : Wake(task)

CoreEmails == {<<>>, GoodEmail, <<"x">>}
CorePhones == {<<>>, GoodPhone}
CoreOtps == {SixDigits, <<"1", "2", "3", "4", "5">>}

(* Spec: operations interleave, up to MaxTasks in flight; the answers and
   the inputs are the representative ones *)
Next ==
  \/ Idle /\ OnlyManager
  \/ Ready /\ Construct /\ OnlyManager
  \/ Ready /\ Reload /\ OnlyManager
  \/ Ready /\ Calls(CoreEmails, CorePhones, {Absent}, CoreOtps) /\ OnlyManager
  \/ Ready /\ Passive /\ OnlyManager
  \/ Ready /\ Answers(CoreReplies) /\ OnlyManager
  \/ Ready /\ Wakes /\ OnlyManager

Spec == Init /\ [][Next]_vars

(* SeqSpec: one operation at a time, as a page that awaits each call makes
   them; every answer and every input of the model *)
Quiet == tasks = EmptyBag

NextSeq ==
  \/ Idle /\ OnlyManager
  \/ Ready /\ Quiet /\ Construct /\ OnlyManager
  \/ Ready /\ Quiet /\ Reload /\ OnlyManager
  \/ Ready /\ Quiet /\ Calls(EmailInputs, PhoneInputs, Methods, OtpInputs) /\ OnlyManager
  \/ Ready /\ Quiet /\ Passive /\ OnlyManager
  \/ Ready /\ Answers(Replies) /\ OnlyManager
  \/ Ready /\ Wakes /\ OnlyManager

SeqSpec == Init /\ [][NextSeq]_vars

(* ClockSpec: one operation at a time, the representative answers and
   inputs, and time passes *)
NextClock ==
  \/ Idle /\ OnlyManager
  \/ Ready /\ Tick /\ OnlyManager
  \/ Ready /\ Quiet /\ Construct /\ OnlyManager
  \/ Ready /\ Quiet /\ Reload /\ OnlyManager
  \/ Ready /\ Quiet /\ Calls(CoreEmails, CorePhones, {Absent}, CoreOtps) /\ OnlyManager
  \/ Ready /\ Quiet /\ Passive /\ OnlyManager
  \/ Ready /\ Answers(CoreReplies) /\ OnlyManager
  \/ Ready /\ Wakes /\ OnlyManager

ClockSpec == Init /\ [][NextClock]_vars

(* RetrySpec: RetryManager.withRetry on an arbitrary operation, for every
   maxRetries up to MaxRetriesTried and two base delays *)
BaseDelays == {DEFAULT_BASE_DELAY, 250}

NextRetry ==
  \/ Idle /\ OnlyManager
  \/ Ready /\ Quiet /\
       \E maxRetries \in 0..MaxRetriesTried, baseDelay \in BaseDelays :
         callWithRetry(maxRetries, baseDelay, "returns") /\ OnlyManager
  \/ Ready /\ \E task \in BagToSet(tasks), o \in Outcomes : OperationSettles(task, o) /\ OnlyManager
  \/ Ready /\ Wakes /\ OnlyManager

RetrySpec == Init /\ [][NextRetry]_vars

(* CallbackSpec: RetrySpec with the onRetry option as an input of the call *)
NextCallback ==
  \/ Idle /\ OnlyManager
  \/ Ready /\ Quiet /\
       \E maxRetries \in 0..MaxRetriesTried, baseDelay \in BaseDelays,
          callback \in OnRetryKinds :
         callWithRetry(maxRetries, baseDelay, callback) /\ OnlyManager
  \/ Ready /\ \E task \in BagToSet(tasks), o \in Outcomes : OperationSettles(task, o) /\ OnlyManager
  \/ Ready /\ Wakes /\ OnlyManager

CallbackSpec == Init /\ [][NextCallback]_vars

(* FairSpec: ClockSpec where what the code itself schedules does happen: a
   turn of the event loop ends and the setTimeout of a backoff wait fires.
   Whether the server answers a request is left open. *)
FairSpec ==
  /\ Init /\ [][NextClock]_vars
  /\ WF_vars(Idle /\ OnlyManager)
  /\ WF_vars(Ready /\ Wakes /\ OnlyManager)

(* ChatSpec: the chat component is mounted over a fresh manager and its
   listeners hear the events of every turn; one operation at a time, the
   representative answers and inputs *)
NextChat ==
  \/ Idle /\ OnlyManager
  \/ Ready /\ Quiet /\ Construct /\ Mounted
  \/ Ready /\ Quiet /\ Calls(CoreEmails, CorePhones, {Absent}, CoreOtps) /\ Heard
  \/ Ready /\ Answers(CoreReplies) /\ Heard
  \/ Ready /\ Wakes /\ Heard

ChatSpec == Init /\ [][NextChat]_vars

(* LifeSpec: one operation at a time over the life of an instance, up to
   and after destroy() *)
NextLife ==
  \/ Idle /\ OnlyManager
  \/ Ready /\ Quiet /\ Construct /\ OnlyManager
  \/ Ready /\ Quiet /\ Reload /\ OnlyManager
  \/ Ready /\ Quiet /\ Calls(CoreEmails, CorePhones, {Absent}, CoreOtps) /\ OnlyManager
  \/ Ready /\ Quiet /\ Passive /\ OnlyManager
  \/ Ready /\ Quiet /\ Destroy
       /\ UNCHANGED <<chat, hookVars, helperVars, serverVars, delivered>>
  \/ Ready /\ Answers(CoreReplies) /\ OnlyManager
  \/ Ready /\ Wakes /\ OnlyManager

LifeSpec == Init /\ [][NextLife]_vars

(* EmitterSpec: callers register and remove listeners on a manager that
   creates sessions, loses them to a 401 and is destroyed; the emits of each
   step call the listeners *)
MaxListeners == 2

\* the emits of the step reach the listeners
Delivers ==
  /\ LET d == Deliveries(events, registered, last'.emitted)
     IN /\ events' = d.evs
        /\ registered' = d.reg
        /\ delivered' = d.log
  /\ UNCHANGED <<chat, hookVars, helperVars, serverVars>>

\* a caller's authService.on(event, listener)
On(event, listener) ==
  /\ alive
  /\ Len(registered) < MaxListeners
  /\ events' = on(events, event, listener)
  /\ registered' = Append(registered, [event |-> event, listener |-> listener])
  /\ delivered' = <<>>
  /\ UNCHANGED <<managerVars, chat, hookVars, helperVars, serverVars>>

\* a caller's authService.off(event, listener)
Off(event, listener) ==
  /\ alive
  /\ events' = off(events, event, listener)
  /\ registered' = Unregister(registered, event, listener)
  /\ delivered' = <<>>
  /\ UNCHANGED <<managerVars, chat, hookVars, helperVars, serverVars>>

EmitterReplies ==
  {r \in CoreReplies :
     \/ r.kind = "neterr" /\ r.fetchInMessage
     \/ /\ r.kind = "http" /\ r.parsable /\ r.status \in {200, 401}
        /\ r.body.error_code = Absent /\ r.body.session_id \in {Absent, "B"}}

NextEmitter ==
  \/ Idle /\ Delivers
  \/ Ready /\ Quiet /\ Construct /\ Delivers
  \/ Ready /\ Quiet /\ createSession /\ Delivers
  \/ Ready /\ (\E task \in BagToSet(tasks), reply \in EmitterReplies :
                 ReplyToRetryOp(task, reply)) /\ Delivers
  \/ Ready /\ Wakes /\ Delivers
  \/ Ready /\ Quiet /\ Destroy
       /\ UNCHANGED <<chat, hookVars, helperVars, serverVars, delivered>>
  \/ Ready /\ \E event \in ListenedEvents, listener \in Listeners :
                On(event, listener)
  \/ Ready /\ \E event \in ListenedEvents, listener \in Listeners :
                Off(event, listener)

EmitterSpec == Init /\ [][NextEmitter]_vars

(* AnswerSpec: ClockSpec with every answer of Replies *)
NextAnswer ==
  \/ Idle /\ OnlyManager
  \/ Ready /\ Tick /\ OnlyManager
  \/ Ready /\ Quiet /\ Construct /\ OnlyManager
  \/ Ready /\ Quiet /\ Reload /\ OnlyManager
  \/ Ready /\ Quiet /\ Calls(CoreEmails, CorePhones, {Absent}, CoreOtps) /\ OnlyManager
  \/ Ready /\ Quiet /\ Passive /\ OnlyManager
  \/ Ready /\ Answers(Replies) /\ OnlyManager
  \/ Ready /\ Wakes /\ OnlyManager

AnswerSpec == Init /\ [][NextAnswer]_vars

(* ContactSpec: one operation at a time against a server that counts the
   contact verifications of the session *)
NextContact ==
  \/ Idle /\ OnlyManager
  \/ Ready /\ Quiet /\ Construct /\ OnlyManager
  \/ Ready /\ Quiet /\ Calls(CoreEmails, CorePhones, {Absent}, CoreOtps)
       /\ OnlyManager
  \/ Ready /\ Answers(CoreReplies) /\ ServerAnswered /\ OnlyManagerAndServer
  \/ Ready /\ Wakes /\ OnlyManager

ContactSpec == Init /\ [][NextContact]_vars

(* StorageSpec: the storage manager alone, called with the values and TTLs
   of StoredValues and StoredTtls while the clock advances and the browser's
   storage fails at will *)
StoredValues == Ids \cup {Circular}
StoredTtls == {0, SESSION_TTL}

NextStorage ==
  \/ \E failure \in StorageFailures : StorageGet(failure)
  \/ \E value \in StoredValues, ttl \in StoredTtls :
       \E failure \in StorageFailures : StorageSetCall(value, ttl, failure)
  \/ \E failure \in StorageFailures : StorageRemove(failure)
  \/ \E failure \in StorageFailures : StorageClear(failure)
  \/ Corrupt
  \/ Tick /\ OnlyManager

StorageSpec == Init /\ [][NextStorage]_vars

(* PollSpec: the OTP poller alone, its clock in steps of Quantum ms; the
   session id it is given changes at will and the server answers when it
   likes *)
NextPoll ==
  \/ (\E sid \in Ids \cup {Null} : Mount(sid)) /\ OnlyPoller
  \/ (\E sid \in Ids \cup {Null} : SetSessionId(sid)) /\ OnlyPoller
  \/ CallRefreshStatus /\ OnlyPoller
  \/ (\E t \in timers : TimerFires(t)) /\ OnlyPoller
  \/ Elapse /\ OnlyPoller
  \/ (\E f \in BagToSet(fetches) : \E reply \in StatusReplies(f.sid) :
        FetchSettles(f, reply)) /\ OnlyPoller
  \/ Unmount /\ OnlyPoller
  \/ (\E seconds \in SecondsTried \cup {otpStatus.remaining_seconds} :
        CallGetUrgencyLevel(seconds))
       /\ UNCHANGED <<managerVars, chat, written, serverVars, emitterVars>>

PollSpec == Init /\ [][NextPoll]_vars

---------------------------------------------------------------------------
(* Properties *)

PublicOps == RetryOps \cup {"getSessionStatus"}

\* the answer is one of the expected failures: the request failed in the
\* network, the body cannot be parsed, or the status is not 2xx
ExpectedFailure(reply) ==
  \/ reply.kind = "neterr"
  \/ reply.kind = "http" /\ ~reply.parsable
  \/ reply.kind = "http" /\ (reply.status < 200 \/ reply.status > 299)

\* C1: every public operation that an expected failure ends (a non-2xx
\* reply, a network failure, an unparsable body, a technical failure after
\* the last retry) resolves to a result with success = false; it never
\* rejects.
C1_FailureResolves ==
  (/\ last.act = "reply"
   /\ last.op \in PublicOps
   /\ last.outcome \in {"resolved", "rejected"}
   /\ ExpectedFailure(last.reply))
  => (last.outcome = "resolved" /\ last.result.success = {FALSE})

---------------------------------------------------------------------------
\* the factor of the backoff wait after the k-th attempt
BackoffFactor == <<1, 2, 4, 8, 16, 32>>

\* C2: withRetry on an operation that keeps failing with a DATABASE_ERROR
\* failure makes exactly maxRetries + 1 attempts and then throws the failure;
\* it waits baseDelay, 2 baseDelay, 4 baseDelay, ... between the attempts and
\* never makes more than maxRetries + 1 attempts.
C2_RetryExhausts ==
  /\ \A task \in BagToSet(tasks) :
       /\ task.attempt + 1 <= task.maxRetries + 1
       /\ task.pc = "delaying" =>
            task.wait = task.baseDelay * BackoffFactor[task.attempt + 1]
  /\ (last.act = "reply" /\ last.tried.error_code = "DATABASE_ERROR") =>
       /\ last.attempt <= last.task.maxRetries + 1
       /\ last.attempt < last.task.maxRetries + 1 =>
            /\ last.outcome = "retrying"
            /\ last.wait = last.task.baseDelay * BackoffFactor[last.attempt]
       /\ last.attempt = last.task.maxRetries + 1 =>
            /\ last.outcome = "rejected"
            /\ last.result = last.tried
            /\ last.wait = 0
  /\ last.act = "wake" =>
       /\ last.task.pc = "delaying"
       /\ last.task.wait = last.task.baseDelay * BackoffFactor[last.attempt - 1]

\* the fourth attempt of a call with maxRetries = 3 has failed with
\* DATABASE_ERROR, as the three before it, and the failure is thrown
C2_Witness ==
  /\ last.act = "reply" /\ last.op = "operation"
  /\ last.task.maxRetries = 3 /\ last.task.baseDelay = 1000
  /\ last.tried.error_code = "DATABASE_ERROR"
  /\ last.attempt = 4
  /\ last.outcome = "rejected"

\* a failure with a business error code and no technical marker
BusinessFailure(e) ==
  /\ e.type = "AuthResponse"
  /\ e.error_code = "INVALID_OTP"
  /\ e.technical_error # {TRUE}

\* C3: withRetry on an operation whose failure carries a business error code
\* and no technical marker attempts it once, waits for nothing, does not call
\* onRetry and throws that failure unchanged.
C3_BusinessFailureOnce ==
  (/\ last.act = "reply" /\ last.op = "operation"
   /\ last.outcome # "resolved"
   /\ BusinessFailure(last.tried))
  => /\ last.outcome = "rejected"
     /\ last.result = last.tried
     /\ last.wait = 0
     /\ last.emitted = <<>>
     /\ \A task \in BagToSet(tasks) : task.op # "operation"
     /\ last.task.attempt = 0 => last.attempt = 1

C3_Witness ==
  /\ last.act = "reply" /\ last.op = "operation"
  /\ BusinessFailure(last.tried)
  /\ last.task.maxRetries = 3
  /\ last.attempt = 1
  /\ last.outcome = "rejected"

---------------------------------------------------------------------------
\* error codes of validation, authentication and business-rule failures
BusinessCodes == {"INVALID_OTP", "SESSION_EXPIRED"}

\* the answer carries a business error code
BusinessReply(reply) ==
  /\ reply.kind = "http" /\ reply.parsable
  /\ reply.body.error_code \in BusinessCodes

\* the operation ended with this turn: its promise settled, nothing waits
Ended ==
  /\ last.outcome \in {"resolved", "rejected"}
  /\ last.wait = 0
  /\ \A task \in BagToSet(tasks) : task.op # last.op

\* C4 as stated: a server reply with a business error code ends createSession,
\* verifyContact, verifyOTP or resendOTP after that attempt, whatever its HTTP
\* status and its flags.
C4_AnyBusinessReplyEnds ==
  (/\ last.act = "reply" /\ last.op \in RetryOps
   /\ BusinessReply(last.reply))
  => Ended

\* C4, amended: a server reply with a business error code ends the operation
\* after that attempt unless the reply is marked technical: it carries
\* technical_error = true or its HTTP status is 500, 502, 503 or 504.
C4_UnmarkedBusinessReplyEnds ==
  (/\ last.act = "reply" /\ last.op \in RetryOps
   /\ BusinessReply(last.reply)
   /\ last.reply.body.technical_error # {TRUE}
   /\ last.reply.status \notin {500, 502, 503, 504})
  => Ended

\* verifyOTP got 429 with INVALID_OTP and retry_allowed on its first attempt
C4_Witness ==
  /\ last.act = "reply" /\ last.op = "verifyOTP"
  /\ last.reply.status = 429
  /\ last.reply.body.error_code = "INVALID_OTP"
  /\ last.reply.body.retry_allowed = {TRUE}
  /\ last.attempt = 1
  /\ last.outcome = "rejected"

---------------------------------------------------------------------------
\* the code is six digits between leading and trailing white space
SixDigitsAfterTrim(otp) ==
  \E lead \in 0..Len(otp) :
    /\ Len(otp) >= lead + 6
    /\ \A i \in 1..Len(otp) :
         IF i <= lead \/ i > lead + 6
           THEN otp[i] \in WhiteSpace
           ELSE otp[i] \in Digits

\* a call that failed locally: it resolved to a failure, sent no request,
\* started nothing that could retry, emitted no event and changed neither the
\* session id nor the stored item
FailedLocally ==
  /\ last.outcome = "resolved"
  /\ last.result.success = {FALSE}
  /\ last.sent = <<>>
  /\ last.emitted = <<>>
  /\ tasks = EmptyBag
  /\ sessionId = last.before.sessionId
  /\ store = last.before.store

\* C5: verifyOTP(code) with an active session sends a request only if code,
\* trimmed, is exactly six digits; for every other input it fails locally.
C5_OtpCheckedBeforeSending ==
  (/\ last.act = "call" /\ last.op = "verifyOTP"
   /\ last.before.sessionId # Null)
  => IF SixDigitsAfterTrim(last.input.otp)
       THEN /\ last.sent = <<[endpoint |-> "verify-otp",
                              sid |-> last.before.sessionId]>>
            /\ last.outcome = "pending"
       ELSE FailedLocally /\ last.result.error_code = "INVALID_OTP"

\* six characters, one of them a blank, are refused without a request
C5_Witness ==
  /\ last.act = "call" /\ last.op = "verifyOTP"
  /\ last.before.sessionId \in Ids
  /\ last.input.otp = <<"1", "2", "3", " ", "5", "6">>
  /\ last.sent = <<>>
  /\ last.outcome = "resolved"

---------------------------------------------------------------------------
\* the well-formed ones among the inputs of the model
WellFormedEmails == {GoodEmail}
WellFormedPhones == {GoodPhone, FormattedPhone}

\* C6: verifyContact(email, phone, preferredMethod) with an active session
\* sends a request exactly when one of email and phone is supplied and that
\* one is well-formed, whatever preferredMethod is; otherwise it fails
\* locally with a validation failure.
C6_ContactCheckedBeforeSending ==
  (/\ last.act = "call" /\ last.op = "verifyContact"
   /\ last.before.sessionId # Null)
  => LET email == last.input.email
         phone == last.input.phone
     IN IF \/ email # <<>> /\ phone = <<>> /\ email \in WellFormedEmails
           \/ phone # <<>> /\ email = <<>> /\ phone \in WellFormedPhones
          THEN /\ last.sent = <<[endpoint |-> "verify-contact",
                                 sid |-> last.before.sessionId]>>
               /\ last.outcome = "pending"
          ELSE /\ FailedLocally
               /\ last.result.error_code \in
                    {"INVALID_INPUT", "INVALID_EMAIL_FORMAT",
                     "INVALID_PHONE_FORMAT"}
               /\ (email # <<>> /\ phone # <<>>) =>
                    /\ last.result.error_code = "INVALID_INPUT"
                    /\ last.result.message =
                         "Please provide either email or phone number, not both."

\* a valid email with preferredMethod sms goes to the server
C6_Witness ==
  /\ last.act = "call" /\ last.op = "verifyContact"
  /\ last.before.sessionId \in Ids
  /\ last.input.email = GoodEmail /\ last.input.phone = <<>>
  /\ last.input.method = "sms"
  /\ Len(last.sent) = 1

---------------------------------------------------------------------------
\* C7: without a session id, verifyContact, verifyOTP, resendOTP and
\* getSessionStatus fail locally with NO_SESSION, whatever their inputs: the
\* session check comes before the validation of the inputs.
C7_NoSessionFailsLocally ==
  (/\ last.act = "call"
   /\ last.op \in {"verifyContact", "verifyOTP", "resendOTP", "getSessionStatus"}
   /\ last.before.sessionId = Null)
  => /\ FailedLocally
     /\ last.result.error_code = "NO_SESSION"
     /\ sessionId = Null

\* verifyContact with both email and phone, and no session: NO_SESSION
C7_Witness ==
  /\ last.act = "call" /\ last.op = "verifyContact"
  /\ last.before.sessionId = Null
  /\ last.input.email = <<"x">> /\ last.input.phone = <<"y">>
  /\ last.result.error_code = "NO_SESSION"

---------------------------------------------------------------------------
TwentyFourHours == 24 * 60 * 60 * 1000

\* C8: when createSession() resolves with success and a session id S, the
\* manager holds S, the stored item holds S and expires 24 hours later, and
\* the turn emitted sessionCreated once, with the result; an attempt of
\* createSession that does not end so emits no sessionCreated.
C8_CreatedSessionRecorded ==
  (last.act = "reply" /\ last.op \in {"createSession", "restartSession"})
  => IF /\ last.outcome = "resolved"
        /\ last.result.success = {TRUE}
        /\ last.result.session_id \in Ids
       THEN /\ sessionId = last.result.session_id
            /\ store.value = last.result.session_id
            /\ store.expiry = now + TwentyFourHours
            /\ CountEv(last.emitted, "sessionCreated") = 1
            /\ last.emitted[Len(last.emitted)] =
                 Ev("sessionCreated", last.result)
       ELSE CountEv(last.emitted, "sessionCreated") = 0

\* createSession succeeded with id A a day after the epoch
C8_Witness ==
  /\ last.act = "reply" /\ last.op = "createSession"
  /\ last.outcome = "resolved"
  /\ last.result.success = {TRUE}
  /\ last.result.session_id = "A"
  /\ now = TwentyFourHours
  /\ sessionId = "A"

---------------------------------------------------------------------------
\* the stored item holds an id and its 24 hours have not elapsed
StoredSession(st) == st.value \in Ids /\ now <= st.expiry

\* the status check of the stored session succeeds: a 2xx answer that reports
\* neither a failure nor SESSION_EXPIRED
CheckSucceeds(reply) ==
  /\ reply.kind = "http" /\ reply.parsable
  /\ reply.status >= 200 /\ reply.status <= 299
  /\ reply.body.success # {FALSE}
  /\ reply.body.error_code # "SESSION_EXPIRED"

\* C9 as stated: a manager constructed over a store that holds S, not yet
\* expired, has session id S right after construction, and still S once its
\* initial validation has succeeded.
C9_RestoredIdKept ==
  /\ (last.act = "construct" /\ StoredSession(last.before.store))
       => sessionId = last.before.store.value
  /\ (last.act = "reply" /\ last.op = "initialize"
      /\ CheckSucceeds(last.reply))
       => sessionId = last.before.sessionId

\* C9, amended: the id is S right after construction; once the initial
\* validation has succeeded (no other operation having started meanwhile) it
\* is still S unless the status reply carried another session id, which the
\* manager adopts and stores instead.
C9_RestoredIdKeptOrRotated ==
  /\ (last.act = "construct" /\ StoredSession(last.before.store))
       => /\ sessionId = last.before.store.value
          /\ store = last.before.store
  /\ (last.act = "reply" /\ last.op = "initialize"
      /\ CheckSucceeds(last.reply))
       => IF last.reply.body.session_id \in {Absent, last.before.sessionId}
            THEN /\ sessionId = last.before.sessionId
                 /\ store = last.before.store
            ELSE /\ sessionId = last.reply.body.session_id
                 /\ store.value = last.reply.body.session_id

\* a manager constructed at the very end of the 24 hours of the item that
\* holds A restored A
C9_Witness ==
  /\ last.act = "construct"
  /\ last.before.store.value = "A"
  /\ now = last.before.store.expiry
  /\ sessionId = "A"

---------------------------------------------------------------------------
\* C10: a manager constructed over a stored, unexpired id S sends GET status
\* for S at once, and no create-session request of its own; when the check
\* succeeds it emits sessionRestored and then initialized with hasSession =
\* true.  Constructed over no stored id it sends nothing and emits
\* initialized with hasSession = false.
C10_RestoreChecksStatus ==
  /\ last.act = "construct" =>
       IF StoredSession(last.before.store)
         THEN /\ last.sent = <<[endpoint |-> "status",
                                sid |-> last.before.store.value]>>
              /\ last.emitted = <<>>
         ELSE /\ last.sent = <<>>
              /\ last.emitted = <<Ev("initialized", [hasSession |-> FALSE])>>
  /\ (last.act = "reply" /\ last.op = "initialize") =>
       /\ last.sent = <<>>
       /\ CheckSucceeds(last.reply) =>
            /\ EventNames(last.emitted) \in
                 {<<"sessionRestored", "initialized">>,
                  <<"sessionUpdated", "sessionRestored", "initialized">>}
            /\ last.emitted[Len(last.emitted)] =
                 Ev("initialized", [hasSession |-> TRUE])
  /\ \A i \in 1..Len(last.sent) :
       last.sent[i].endpoint = "session" =>
         last.act \in {"call", "wake"}
           /\ last.op \in {"createSession", "restartSession"}

\* the status check of the restored session A succeeded
C10_Witness ==
  /\ last.act = "reply" /\ last.op = "initialize"
  /\ last.before.sessionId = "A"
  /\ CheckSucceeds(last.reply)
  /\ EventNames(last.emitted) = <<"sessionRestored", "initialized">>
  /\ sessionId = "A"

---------------------------------------------------------------------------
\* event a was emitted and event b after it
EmittedInOrder(es, a, b) ==
  \E i \in 1..Len(es), j \in 1..Len(es) :
    i < j /\ es[i].name = a /\ es[j].name = b

\* C11: at the end of the handling of a server reply with HTTP status 401
\* that arrives while a session is held, in whichever operation it arrives
\* and whatever it carries, the session id is null, the stored item is
\* removed, and authCleared and then authenticationRequired were emitted.
C11_UnauthorizedClearsSession ==
  (/\ last.act = "reply" /\ last.reply.kind = "http"
   /\ last.reply.status = 401
   /\ last.before.sessionId # Null)
  => /\ sessionId = Null
     /\ store = NoItem
     /\ EmittedInOrder(last.emitted, "authCleared", "authenticationRequired")

---------------------------------------------------------------------------
\* what the attempt that handled the answer returned or threw
Attempted == IF last.op \in RetryOps THEN last.tried ELSE last.result

\* C12: a failed reply with status 429 gives a failure with retry_allowed =
\* true; a failed reply with a status from 500 to 599 gives a failure with
\* technical_error = true and retry_allowed = true, and an operation under
\* withRetry that has retries left waits and tries again.
C12_StatusMarksFailure ==
  (last.act = "reply" /\ last.reply.kind = "http"
   /\ ~ResponseOk(last.reply.status))
  => /\ last.reply.status = 429 => Attempted.retry_allowed = {TRUE}
     /\ (last.reply.status >= 500 /\ last.reply.status <= 599)
          => /\ Attempted.technical_error = {TRUE}
             /\ Attempted.retry_allowed = {TRUE}
             /\ (last.op \in RetryOps /\ last.attempt <= last.task.maxRetries)
                  => (last.outcome = "retrying" /\ last.wait > 0)

---------------------------------------------------------------------------
\* the answer is a technical failure: the request failed in the network, the
\* body cannot be read, the status is 5xx, or the failed reply carries a
\* technical error code
TechnicalFailure(reply) ==
  \/ reply.kind = "neterr"
  \/ /\ reply.kind = "http"
     /\ \/ ~reply.parsable
        \/ reply.status >= 500
        \/ /\ ~ResponseOk(reply.status)
           /\ reply.body.error_code \in TECHNICAL_ERROR_CODES

\* C13: when the last attempt of an operation under withRetry, all retries
\* used, ends in a technical failure, the failure surfaced to the caller has
\* retry_allowed = true and shouldShowRetryButton is true for it.
C13_ExhaustedFailureRetryAllowed ==
  (/\ last.act = "reply"
   /\ last.op \in RetryOps
   /\ last.attempt = last.task.maxRetries + 1
   /\ last.outcome = "rejected"
   /\ TechnicalFailure(last.reply))
  => /\ last.result.retry_allowed = {TRUE}
     /\ shouldShowRetryButton(last.result)

---------------------------------------------------------------------------
\* a call of op has not settled yet
Pending(op) == \E task \in BagToSet(tasks) : task.op = op

\* C14: every public operation that was called eventually settles, whether
\* or not the server answers its requests (a request without an answer is
\* failed as a timeout after 30 s).
C14_EveryOperationSettles ==
  \A op \in PublicOps : Pending(op) ~> ~Pending(op)

---------------------------------------------------------------------------
\* the call of restartSession: the session is cleared, sessionRestarted is
\* emitted after authCleared, and the create-session request is sent
RestartClearsThenCreates ==
  (last.act = "call" /\ last.op = "restartSession")
  => /\ sessionId = Null
     /\ store = NoItem
     /\ EventNames(last.emitted) = <<"authCleared", "sessionRestarted">>
     /\ last.sent = <<[endpoint |-> "session", sid |-> Absent]>>

\* the creation succeeded: it resolved with success and a session id
CreationSucceeded ==
  /\ last.outcome = "resolved"
  /\ last.result.success = {TRUE}
  /\ last.result.session_id \in Ids

\* the creation failed: it rejected, or resolved with success = false
CreationFailed ==
  \/ last.outcome = "rejected"
  \/ last.outcome = "resolved" /\ last.result.success = {FALSE}

RestartSucceededRecorded ==
  (last.act = "reply" /\ last.op = "restartSession" /\ CreationSucceeded)
  => /\ sessionId = last.result.session_id
     /\ store.value = last.result.session_id

\* C15 as stated: restartSession clears the session, emits sessionRestarted
\* and sends the create-session request; it ends with the new id held and
\* stored if the creation succeeds, and with no id and no stored item if it
\* fails.
C15_RestartEndsCreatedOrEmpty ==
  /\ RestartClearsThenCreates
  /\ RestartSucceededRecorded
  /\ (last.act = "reply" /\ last.op = "restartSession" /\ CreationFailed)
       => (sessionId = Null /\ store = NoItem)

\* the session id the handling of a failed answer leaves: none after a
\* readable 401, the id the answer carries if it carries one, else the id
\* held before
LeftByFailedReply ==
  IF last.reply.kind = "http" /\ last.reply.parsable /\ last.reply.status = 401
    THEN Null
  ELSE IF last.reply.body.session_id \in Ids
    THEN last.reply.body.session_id
  ELSE last.before.sessionId

\* C15, amended: as stated, except that an attempt of the creation that
\* fails leaves no id and no stored item only if no answer carried a
\* session_id: the id of an answer that carries one, a failed answer
\* included, is held and stored.
C15_RestartEndsCreatedOrAdopted ==
  /\ RestartClearsThenCreates
  /\ RestartSucceededRecorded
  /\ (last.act = "reply" /\ last.op = "restartSession" /\ ~CreationSucceeded
      /\ ~(last.outcome = "resolved" /\ last.result.success = {TRUE}))
       => /\ sessionId = LeftByFailedReply
          /\ IF sessionId = Null THEN store = NoItem
                                 ELSE store.value = sessionId
  /\ (last.act = "wake" /\ last.op = "restartSession")
       => (sessionId = last.before.sessionId /\ store = last.before.store)

\* a restartSession whose creation failed at the last attempt with no answer
\* carrying an id: no session is left
C15_Witness ==
  /\ last.act = "reply" /\ last.op = "restartSession"
  /\ last.outcome = "rejected"
  /\ last.attempt = DEFAULT_MAX_RETRIES + 1
  /\ last.before.sessionId = Null
  /\ sessionId = Null /\ store = NoItem

---------------------------------------------------------------------------
\* the order of the stages the component mirrors
StageRank(step) ==
  CASE step = "session" -> 0
    [] step = "contact" -> 1
    [] step = "otp" -> 2
    [] step = "authenticated" -> 3

\* C16: while the manager holds one session id the mirrored stage never
\* moves back, and the only operation after which it is behind where it was
\* is restartSession.
C16_StageOnlyAdvances ==
  [][(alive /\ alive') =>
       /\ (sessionId # Null /\ sessionId' = sessionId)
            => StageRank(chat'.authStep) >= StageRank(chat.authStep)
       /\ StageRank(chat'.authStep) < StageRank(chat.authStep)
            => last'.op = "restartSession"]_vars

---------------------------------------------------------------------------
\* C17: the poller never has two status fetches in flight at once.
C17_OneFetchInFlight == BagCardinality(fetches) <= 1

---------------------------------------------------------------------------
\* the delay the table gives for a fetched status
TableDelay(status) ==
  CASE ~status.otp_active -> 5000
    [] status.otp_active /\ status.remaining_seconds <= 60 -> 500
    [] status.otp_active /\ status.remaining_seconds > 60
         /\ status.remaining_seconds <= 180 -> 1000
    [] status.otp_active /\ status.remaining_seconds > 180 -> 2000

\* C18: whenever the mounted poller holds a fetched status for a non-null
\* session id, its pending timer is the one in intervalRef and its delay is
\* the one the table gives for that status.
C18_TimerFollowsStatus ==
  (mounted /\ hookSessionId # Null /\ otpStatus # NoStatus)
  => \E t \in timers :
       /\ timers = {t}
       /\ t.id = intervalRef
       /\ t.delay = TableDelay(otpStatus)

\* a status with 45 s left is held, fetched on a tick of the timer of a
\* status that gave 2000 ms, and the timer now has 500 ms
C18_Witness ==
  /\ mounted /\ hookSessionId = "A"
  /\ otpStatus.otp_active /\ otpStatus.remaining_seconds = 45
  /\ \E t \in timers : t.delay = 500 /\ t.age = 500
  /\ fetches # EmptyBag

---------------------------------------------------------------------------
\* C19: at every moment at most one timer of the poller is armed, and it is
\* the one intervalRef holds: arming a timer cancels the one armed before.
C19_OneTimer ==
  /\ Cardinality(timers) <= 1
  /\ \A t \in timers : t.id = intervalRef

\* the timer of the session effect was replaced by the 5000 ms timer of an
\* inactive status, which then ran for a while after the id changed
C19_Witness ==
  /\ mounted /\ hookSessionId = "B"
  /\ otpStatus # NoStatus /\ otpStatus.for = "A"
  /\ \E t \in timers : t.delay = 5000 /\ t.age = 1000 /\ t.sid = "B"

---------------------------------------------------------------------------
\* C20: when the session id of the mounted poller becomes null, no timer is
\* left and the status is cleared; while the id is null no timer is armed
\* and no fetch is started.
C20_NullSessionStopsPolling ==
  [][(mounted' /\ hookSessionId' = Null) =>
       /\ timers' = {}
       /\ intervalRef' = 0
       /\ BagCardinality(fetches') <= BagCardinality(fetches)
       /\ (mounted /\ hookSessionId # Null) => otpStatus' = NoStatus]_vars

\* the id became null while a fetch was in flight: no timer, no status
C20_Witness ==
  /\ mounted /\ hookSessionId = Null
  /\ fetches # EmptyBag
  /\ timers = {} /\ otpStatus = NoStatus

---------------------------------------------------------------------------
\* C21: a status the mounted poller takes in is the status of the session id
\* it has at that moment: the answer to a fetch made for an id the poller has
\* left is not applied, and while the id is null the status stays null.
C21_NoStaleFetchApplied ==
  [][(mounted /\ otpStatus' # otpStatus /\ otpStatus' # NoStatus)
       => otpStatus'.for = hookSessionId']_vars

---------------------------------------------------------------------------
\* C22: any two status fetches a mounted poller starts are at least
\* MIN_FETCH_GAP ms apart: a step starts at most one fetch, only when
\* MIN_FETCH_GAP ms have passed since the previous fetch started, and a
\* refresh asked for earlier starts none.
C22_FetchesApart ==
  [][mounted =>
       /\ BagCardinality(fetches') <= BagCardinality(fetches) + 1
       /\ BagCardinality(fetches') > BagCardinality(fetches)
            => sinceLastFetch >= MIN_FETCH_GAP /\ sinceLastFetch' = 0
       /\ sinceLastFetch < MIN_FETCH_GAP
            => BagCardinality(fetches') <= BagCardinality(fetches)]_vars

\* a second fetch has just started, the first one still unanswered, and the
\* timer that started it starts over
C22_Witness ==
  /\ mounted /\ hookSessionId = "A"
  /\ BagCardinality(fetches) = 2
  /\ sinceLastFetch = 0
  /\ \E t \in timers : t.age = 0

---------------------------------------------------------------------------
\* how severe an urgency level is
Severity(level) ==
  CASE level = "normal" -> 0
    [] level = "warning" -> 1
    [] level = "urgent" -> 2
    [] level = "critical" -> 3
    [] level = "expired" -> 4

\* the level the table gives for a number of seconds
TableLevel(seconds) ==
  CASE seconds <= 0 -> "expired"
    [] seconds > 0 /\ seconds <= 30 -> "critical"
    [] seconds > 30 /\ seconds <= 60 -> "urgent"
    [] seconds > 60 /\ seconds <= 180 -> "warning"
    [] seconds > 180 -> "normal"

\* C23: getUrgencyLevel(seconds) gives expired for seconds <= 0, critical up to
\* 30, urgent up to 60, warning up to 180 and normal above; the call leaves
\* the poller's state as it is and its answer depends on seconds alone; with
\* fewer seconds the level is never less severe.
C23_UrgencyByTable ==
  /\ [](called.op = "getUrgencyLevel" =>
          /\ called.returned = TableLevel(called.seconds)
          /\ \A s \in SecondsTried \cup RemainingSeconds :
               s <= called.seconds
                 => Severity(getUrgencyLevel(s)) >= Severity(called.returned))
  /\ [][called' # called => UNCHANGED hookVars]_vars

\* the urgency of the 30 seconds was asked while a status with 45 seconds
\* left was held
C23_Witness ==
  /\ mounted /\ otpStatus.remaining_seconds = 45
  /\ called.op = "getUrgencyLevel"
  /\ called.seconds = 30 /\ called.returned = "critical"

---------------------------------------------------------------------------
\* what a get at time t owes to the last write
Expected(w, t) ==
  IF w.value = Null THEN Null
  ELSE IF w.ttl = 0 \/ t - w.at <= w.ttl THEN w.value
  ELSE Null

\* C24: with the storage working, get returns the value last set as long as
\* no more than its TTL has passed since the set (always, for a set without
\* TTL); later it returns null and leaves no entry; it returns null for a key
\* never set, removed or cleared.
C24_StoreRoundTrip ==
  (called.op = "get" /\ called.failure = "none" /\ written.value # "unknown")
  => /\ called.returned = Expected(written, called.at)
     /\ ~called.threw
     /\ called.returned = Null => store = NoItem

\* an entry set with the 24-hour TTL, read two TTLs later: null, and gone
C24_Witness ==
  /\ called.op = "get" /\ called.failure = "none"
  /\ written.value = "A" /\ written.ttl = SESSION_TTL
  /\ called.at = written.at + 2 * SESSION_TTL
  /\ called.returned = Null /\ store = NoItem

---------------------------------------------------------------------------
\* C25: no call of get, set, remove or clear throws, whatever the failure of
\* the browser's storage; get then returns null.
C25_StoreNeverThrows ==
  called.op \in {"get", "set", "remove", "clear"}
  => /\ ~called.threw
     /\ (called.op = "get" /\ called.failure = "denied")
          => called.returned = Null

---------------------------------------------------------------------------
\* C26: in every answer with counters the client holds, after a contact
\* verification that succeeded or failed and after a status request,
\* remaining_contact_attempts = max_contact_attempts - contact_attempts
\* and remaining_contact_attempts >= 0.
C26_RemainingIsMaxLessUsed ==
  statusHeld # NoCounters
  => /\ statusHeld.remaining_contact_attempts
          = statusHeld.max_contact_attempts - statusHeld.contact_attempts
     /\ statusHeld.remaining_contact_attempts >= 0

\* the last attempt allowed has failed: the answer holds no remaining
\* attempt and the session is locked
C26_Witness ==
  /\ statusHeld.state = "locked"
  /\ statusHeld.contact_attempts = MaxContactAttempts
  /\ statusHeld.remaining_contact_attempts = 0
  /\ last.op = "verifyContact" /\ last.reply.status = 400
  /\ last.before.sessionId # Null /\ server = statusHeld

---------------------------------------------------------------------------
\* the operations whose requests carry the session id under withRetry
SessionOps == {"verifyContact", "verifyOTP", "resendOTP"}

\* C27: every request of an attempt of verifyContact, verifyOTP or resendOTP,
\* the first or a retry, carries the session id the manager holds at that
\* moment, which is not null: after the session was cleared no further
\* attempt is sent.
C27_AttemptsCarrySession ==
  last.op \in SessionOps
  => \A i \in 1..Len(last.sent) :
       /\ last.sent[i].sid # Null
       /\ last.sent[i].sid = sessionId

---------------------------------------------------------------------------
\* C28: the answer to a request that carried session id A, arriving when the
\* manager holds another id B, changes neither the id in memory nor the
\* stored entry: it does not bring A back and does not clear B.
C28_LateReplyLeavesSession ==
  (/\ last.act = "reply"
   /\ last.task.sid \in Ids
   /\ last.before.sessionId \in Ids \ {last.task.sid})
  => /\ sessionId = last.before.sessionId
     /\ store = last.before.store

---------------------------------------------------------------------------
\* the answer of the turn is a server reply other than a 401
ServerReplied == last.act = "reply" /\ last.reply.kind = "http" /\ last.reply.status # 401

\* the reply carries a session id other than the one on record
CarriesOtherId ==
  /\ last.reply.parsable
  /\ last.reply.body.session_id \in Ids
  /\ last.reply.body.session_id # last.before.sessionId

\* the turn emitted sessionUpdated with the id of the reply
UpdateAnnounced ==
  \E i \in 1..Len(last.emitted) :
    last.emitted[i] = Ev("sessionUpdated",
                         [sessionId |-> last.reply.body.session_id])

\* the stored entry a turn at this time writes for the id of the reply
StoredNow == Item(last.reply.body.session_id, now + TwentyFourHours, now)

FailedCheck == last.op \in ValidateOps /\ ~CheckSucceeds(last.reply)

\* the reply is the success of a session creation that names a session id
CreationNamesId ==
  /\ last.op \in {"createSession", "restartSession"}
  /\ last.reply.parsable /\ ResponseOk(last.reply.status)
  /\ last.reply.body.success # {FALSE}
  /\ last.reply.body.session_id \in Ids

---------------------------------------------------------------------------
\* C30: from its initialization until destroy() the manager has its
\* re-validation timer armed and its page listeners installed, whatever
\* cleared the session meanwhile; destroy() leaves neither the timer nor the
\* listeners.
C30_TimerArmedUntilDestroy ==
  /\ (alive /\ initialized) => (sessionCheckInterval /\ listening)
  /\ last.act = "destroy" => (~sessionCheckInterval /\ ~listening)

---------------------------------------------------------------------------
\* destroy() has run on the instance: initialized is reset while the
\* instance exists (before its initialization no page listener is installed)
Destroyed == alive /\ ~initialized

\* C31: a turn the timer or a visibility, online or offline event starts on
\* a destroyed manager sends no request and leaves the session id and the
\* stored entry as they are.
C31_DestroyedIsSilent ==
  (Destroyed /\ last.act \in {"timer", "visible", "online", "offline"})
  => /\ last.sent = <<>>
     /\ sessionId = last.before.sessionId
     /\ store = last.before.store

---------------------------------------------------------------------------
\* the status check failed for a technical reason: no answer at all, or an
\* answer with a 5xx status
TechnicalReply(reply) ==
  \/ reply.kind = "neterr"
  \/ reply.kind = "http" /\ reply.status >= 500

\* C32: when the status check of a passive re-validation (initial, periodic,
\* on visibility or on reconnect) fails for a technical reason, the session
\* id and the stored entry are left as they were.
C32_TechnicalFailureKeepsSession ==
  (/\ last.act = "reply" /\ last.op \in ValidateOps
   /\ TechnicalReply(last.reply)
   /\ last.reply.body.session_id = Absent)
  => /\ sessionId = last.before.sessionId
     /\ store = last.before.store

---------------------------------------------------------------------------
\* C33: getSessionStatus() with a session held sends one status request for
\* that session; its answer, whatever it is, settles the call with nothing
\* sent again and no wait; the session id and the stored entry stay as they
\* were, also on SESSION_EXPIRED, unless the answer is a 401 or carries
\* another session id.
C33_StatusOnceAndFrame ==
  /\ (last.op = "getSessionStatus" /\ last.act = "call"
      /\ last.before.sessionId # Null)
     => /\ last.sent = <<[endpoint |-> "status", sid |-> last.before.sessionId]>>
        /\ sessionId = last.before.sessionId /\ store = last.before.store
  /\ (last.op = "getSessionStatus" /\ last.act = "reply")
     => /\ last.sent = <<>> /\ last.wait = 0
        /\ last.outcome = "resolved" /\ tasks = EmptyBag
        /\ (last.reply.status # 401
            /\ last.reply.body.session_id \in {Absent, last.before.sessionId})
           => (sessionId = last.before.sessionId /\ store = last.before.store)
  /\ last.op = "getSessionStatus" => last.act \in {"call", "reply"}

\* the server answers the status request with SESSION_EXPIRED and the
\* session is still held
C33_Witness ==
  /\ last.op = "getSessionStatus" /\ last.act = "reply"
  /\ last.reply.status = 200 /\ last.reply.body.error_code = "SESSION_EXPIRED"
  /\ sessionId = "A" /\ store.value = "A"

---------------------------------------------------------------------------
\* C34: the step in which the session id of the poller becomes a non-null
\* id (on mount or by a change) starts a status fetch for that id, whatever
\* the time since the previous fetch.
C34_FetchOnNewSession ==
  [][(/\ mounted' /\ hookSessionId' \in Ids
      /\ (~mounted \/ hookSessionId' # hookSessionId))
     => CopiesIn([sid |-> hookSessionId'], fetches')
          > CopiesIn([sid |-> hookSessionId'], fetches)]_vars

---------------------------------------------------------------------------
\* C35: while the poller is mounted with a non-null session id, after every
\* step a timer is pending, it is the one in intervalRef, and its callback
\* fetches the status of that id.
C35_TimerAlwaysPending ==
  (mounted /\ hookSessionId # Null)
  => \E t \in timers :
       /\ t.id = intervalRef
       /\ t.sid = hookSessionId
       /\ t.delay \in {500, 1000, 2000, 5000}
       /\ t.age <= t.delay

\* a fetch has failed and another is under way: the status is null, the
\* error is set and the timer of the status held before is still running
C35_Witness ==
  /\ mounted /\ hookSessionId = "A"
  /\ otpStatus = NoStatus /\ hookError
  /\ \E t \in timers : t.delay = 2000 /\ t.sid = "A"

---------------------------------------------------------------------------
\* C36: after every step of a manager the session id in memory and the
\* stored entry agree: both absent, or the entry holds the id in memory.
C36_MemoryAndStoreAgree ==
  alive => IF sessionId = Null THEN store = NoItem
           ELSE store.value = sessionId

\* one operation left session B while the answer to another, sent under A,
\* is still awaited
C36_Witness ==
  /\ alive /\ sessionId = "B" /\ store.value = "B"
  /\ \E task \in BagToSet(tasks) : task.sid = "A"


---------------------------------------------------------------------------
\* the answer on record is a server success: a readable 2xx response that
\* does not say success: false
ServerSucceeded ==
  /\ last.act = "reply"
  /\ last.reply.kind = "http" /\ last.reply.parsable
  /\ ResponseOk(last.reply.status)
  /\ last.reply.body.success # {FALSE}

\* the step on record emitted event name exactly once, in the attempt of
\* operation op that the server answered with success and that ended the call
EmittedOnSuccessOf(op, name) ==
  CountEv(last.emitted, name) > 0
    => /\ CountEv(last.emitted, name) = 1
       /\ last.op = op
       /\ ServerSucceeded
       /\ last.outcome = "resolved"

\* C37: verifyOTP emits otpVerified and then authenticationSuccess, once each
\* and in that order, exactly in the step where the server answers its
\* request with success; a locally rejected code and a failed attempt emit
\* neither. contactVerified is emitted only on the server success of
\* verifyContact and otpResent only on that of resendOTP; the emitting step
\* ends the call, so a call emits them at most once however often it retried.
C37_SuccessEventsOnServerSuccess ==
  /\ (last.op = "verifyOTP" /\ ServerSucceeded)
       => /\ EmittedInOrder(last.emitted, "otpVerified", "authenticationSuccess")
          /\ last.outcome = "resolved"
  /\ EmittedOnSuccessOf("verifyOTP", "otpVerified")
  /\ EmittedOnSuccessOf("verifyOTP", "authenticationSuccess")
  /\ EmittedOnSuccessOf("verifyContact", "contactVerified")
  /\ EmittedOnSuccessOf("resendOTP", "otpResent")

\* a verifyOTP confirmed by the server on its second attempt, after a retry
C37_Witness ==
  /\ last.op = "verifyOTP" /\ ServerSucceeded /\ last.attempt > 0
  /\ EventNames(last.emitted) = <<"otpVerified", "authenticationSuccess">>


---------------------------------------------------------------------------
\* isAuthenticated(): whether the manager holds a session id
isAuthenticated == sessionId # Null

\* C38: isAuthenticated() is true only of a session that passed OTP
\* verification: at the end of a step that put a new session id in place
\* without emitting authenticationSuccess (a session just created, restored
\* or adopted), isAuthenticated() is false.
C38_AuthenticatedOnlyAfterOtp ==
  (/\ alive /\ last.act \in {"call", "reply"}
   /\ sessionId # last.before.sessionId
   /\ CountEv(last.emitted, "authenticationSuccess") = 0)
    => ~isAuthenticated


---------------------------------------------------------------------------
\* C39: withRetry calls onRetry once before each backoff wait, with the
\* number of the attempt that failed and its failure, and onRetry does not
\* influence control flow: after a failed attempt that is retryable and not
\* the last, the call waits baseDelay * 2^k and goes on, whether the onRetry
\* option is absent, returns or throws; the callback, when given, was called
\* once with that attempt number and that failure.
C39_OnRetryWithoutInfluence ==
  (/\ last.act = "reply" /\ last.op = "operation"
   /\ last.outcome # "resolved"
   /\ shouldRetry(last.tried)
   /\ last.attempt < last.task.maxRetries + 1)
  => /\ last.outcome = "retrying"
     /\ last.wait = last.task.baseDelay * BackoffFactor[last.attempt]
     /\ last.emitted =
          IF last.task.onRetry = "absent" THEN <<>>
          ELSE <<Ev("onRetry", [operation |-> "operation",
                                attempt |-> last.attempt,
                                error |-> last.tried])>>

\* the same of the callbacks that are absent or return
C39_ReturningOnRetryWithoutInfluence ==
  (/\ last.act = "reply" /\ last.op = "operation"
   /\ last.task.onRetry # "throws")
  => C39_OnRetryWithoutInfluence

\* each retry of a manager operation emits one retryAttempt naming the
\* operation, the attempt that failed and its failure
C39_OneRetryAttemptPerRetry ==
  (last.act = "reply" /\ last.op \in RetryOps)
  => IF last.outcome = "retrying"
       THEN /\ CountEv(last.emitted, "retryAttempt") = 1
            /\ \E i \in 1..Len(last.emitted) :
                 last.emitted[i] =
                   Ev("retryAttempt", [operation |-> OperationName(last.op),
                                       attempt |-> last.attempt,
                                       error |-> last.tried])
       ELSE CountEv(last.emitted, "retryAttempt") = 0


---------------------------------------------------------------------------
\* the listeners the emit on record called
CalledBy(entry) == entry.calls

\* C40: each emit of a step calls the listeners registered for its event
\* at that time, once for each registration and in registration order, those
\* after a listener that throws included; emit does not throw, so every emit
\* of the operation is made and the operation ends as it does without
\* listeners; a listener removed with off, and every listener after
\* removeAllListeners, is among those registered no more and is not called.
C40_EmitCallsRegisteredListeners ==
  /\ \A i \in 1..Len(delivered) :
       /\ ~delivered[i].threw
       /\ CalledBy(delivered[i]) = delivered[i].registered
  /\ last.act # "idle" =>
       /\ Len(delivered) = Len(last.emitted)
       /\ \A i \in 1..Len(delivered) :
            delivered[i].event = last.emitted[i].name
  /\ \A event \in ListenedEvents :
       events[event] = RegisteredFor(registered, event)
  /\ (last.act = "destroy") => \A event \in ListenedEvents : events[event] = <<>>

\* a createSession succeeded with a listener of sessionCreated that threw
\* and a second listener called after it
C40_Witness ==
  /\ last.act = "reply" /\ last.op = "createSession"
  /\ last.outcome = "resolved"
  /\ \E i \in 1..Len(delivered) :
       /\ delivered[i].event = "sessionCreated"
       /\ delivered[i].calls = <<"thrower", "quiet">>

=============================================================================
